---- MODULE Spec2Model ----
(***************************************************************************)
(* Front end of the ToyCompiler C compiler: the lexer (lexer.c, token.c),  *)
(* the AST node family and its destruction (ast_nodes.c, ast.c), the AST   *)
(* builder (ast_builder.c) and the visitor dispatch and traversal drivers  *)
(* (ast_visitor.c).                                                        *)
(*                                                                         *)
(* Characters are one-character strings, a source buffer is a sequence of  *)
(* characters, a lexeme is a string.  A size_t value is an integer; a      *)
(* negative integer v stands for the wrapped value 2^64 + v, which is      *)
(* greater than every buffer length.                                       *)
(***************************************************************************)
EXTENDS Integers, Sequences, FiniteSets, TLC

VARIABLES
    lexer,      \* Lexer: source, sourceLength, position, line, column, lineStartOffset
    pc,         \* position of the running operation
    op,         \* the operation running or last run
    saved,      \* lexerPeekToken's saved position/line/column/lineStartOffset
    callState,  \* the lexer as it was when the running operation was called
    tokens,     \* lexerTokenize's vector of tokens
    lastToken,  \* the token the last lexerNextToken / lexerPeekToken returned
    diags,      \* reports made to the diagnostic engine, in order
    heap,       \* AST nodes by address
    root,       \* ASTBuilder.root (0 when there is no builder); the root of a tree
    build,      \* which definition of create/destroyTranslationUnit is linked
    astPc,      \* "building", or how the tree came to its end
    target,     \* the node the destroy, accept or traversal operation was called on
    before,     \* the heap as it was when the destroy operation was called
    lastCall,   \* the last call of an astBuilder* operation: arguments and outcome
    added,      \* what the successful astBuilderAdd*Decl calls returned, in order
    visitor,    \* ASTVisitor: populated slots and hooks
    trace,      \* calls made by the running traversal, in order
    visPc,      \* position of the traversal
    engine,     \* DiagnosticEngine: counters and suppression flags
    history     \* the calls made on the diagnostic engine, in order

lexVars == <<lexer, pc, op, saved, callState, tokens, lastToken, diags>>
astVars == <<heap, root, build, astPc, target, before, lastCall, added>>
visVars == <<visitor, trace, visPc>>
engVars == <<engine, history>>
vars == <<lexer, pc, op, saved, callState, tokens, lastToken, diags,
          heap, root, build, astPc, target, before, lastCall, added,
          visitor, trace, visPc, engine, history>>

-----------------------------------------------------------------------------
(* Bounds *)

MaxLen == 3
MaxTokens == 5
MaxDiags == 2
MaxLine == 5
MaxColumn == 6

-----------------------------------------------------------------------------
(* Characters *)

NUL == "NUL"   \* the byte 0
VT == "VT"     \* the byte 11, '\v'
BEL == "BEL"   \* the byte 7, '\a'
BS == "BS"     \* the byte 8, '\b'

Digits == {"0", "1", "2", "3", "4", "5", "6", "7", "8", "9"}
OctDigits == {"0", "1", "2", "3", "4", "5", "6", "7"}
BinDigits == {"0", "1"}
Lower == {"a", "b", "c", "d", "e", "f", "g", "h", "i", "j", "k", "l", "m",
          "n", "o", "p", "q", "r", "s", "t", "u", "v", "w", "x", "y", "z"}
Upper == {"A", "B", "C", "D", "E", "F", "G", "H", "I", "J", "K", "L", "M",
          "N", "O", "P", "Q", "R", "S", "T", "U", "V", "W", "X", "Y", "Z"}
Alpha == Lower \cup Upper
AlNum == Alpha \cup Digits
XDigits == Digits \cup {"a", "b", "c", "d", "e", "f", "A", "B", "C", "D", "E", "F"}
Punct == {"!", "\"", "#", "$", "%", "&", "'", "(", ")", "*", "+", ",", "-", ".",
          "/", ":", ";", "<", "=", ">", "?", "@", "[", "\\", "]", "^", "_",
          "{", "|", "}", "~"}   \* ispunct, less the backquote (never in a modelled buffer)
WhiteSpace == {" ", "\t", "\r", "\n", VT, "\f"}

DigitValue(ch) ==
    CASE ch = "0" -> 0 [] ch = "1" -> 1 [] ch = "2" -> 2 [] ch = "3" -> 3
      [] ch = "4" -> 4 [] ch = "5" -> 5 [] ch = "6" -> 6 [] ch = "7" -> 7
      [] ch = "8" -> 8 [] ch = "9" -> 9
      [] ch \in {"a", "A"} -> 10 [] ch \in {"b", "B"} -> 11
      [] ch \in {"c", "C"} -> 12 [] ch \in {"d", "D"} -> 13
      [] ch \in {"e", "E"} -> 14 [] ch \in {"f", "F"} -> 15
      [] OTHER -> 0

-----------------------------------------------------------------------------
(* Lexer: character access *)

CharAt(l, p) ==
    IF p < 0 \/ p >= l.sourceLength THEN NUL ELSE l.source[p + 1]

lexerCurrentChar(l) == CharAt(l, l.position)

lexerPeekChar(l, offset) == CharAt(l, l.position + offset)

lexerPeekNext(l) == lexerPeekChar(l, 1)

lexerIsAtEnd(l) == l.position < 0 \/ l.position >= l.sourceLength

lexerAdvance(l) ==
    IF lexerIsAtEnd(l) THEN l
    ELSE IF l.source[l.position + 1] = "\n"
         THEN [l EXCEPT !.position = @ + 1, !.line = @ + 1, !.column = 1,
                        !.lineStartOffset = l.position + 1]
         ELSE [l EXCEPT !.position = @ + 1, !.column = @ + 1]

\* while (!lexerIsAtEnd(lexer) && <current char in S>) lexerAdvance(lexer);
RECURSIVE AdvanceWhileIn(_, _)
AdvanceWhileIn(l, S) ==
    IF ~lexerIsAtEnd(l) /\ lexerCurrentChar(l) \in S
    THEN AdvanceWhileIn(lexerAdvance(l), S)
    ELSE l

\* while (!lexerIsAtEnd(lexer) && <current char not in S>) lexerAdvance(lexer);
RECURSIVE AdvanceUntilIn(_, _)
AdvanceUntilIn(l, S) ==
    IF ~lexerIsAtEnd(l) /\ lexerCurrentChar(l) \notin S
    THEN AdvanceUntilIn(lexerAdvance(l), S)
    ELSE l

\* the characters source[from .. to-1] as a string
RECURSIVE Text(_, _, _)
Text(l, from, to) ==
    IF to <= from THEN "" ELSE CharAt(l, from) \o Text(l, from + 1, to)

createSourceLocation(line, column, offset) ==
    [line |-> line, column |-> column, offset |-> offset]

lexerCreateCurrentLocation(l) ==
    createSourceLocation(l.line, l.column, l.position)

createLexer(source) ==
    [source |-> source, sourceLength |-> Len(source), position |-> 0,
     line |-> 1, column |-> 1, lineStartOffset |-> 0]

-----------------------------------------------------------------------------
(* Lexer: whitespace and comments *)

RECURSIVE lexerSkipWhitespace(_)
lexerSkipWhitespace(l) ==
    IF lexerIsAtEnd(l) THEN l
    ELSE IF lexerCurrentChar(l) \in WhiteSpace
         THEN lexerSkipWhitespace(lexerAdvance(l))
    ELSE IF lexerCurrentChar(l) = "\\" /\ lexerPeekNext(l) = "\n"
         THEN lexerSkipWhitespace(lexerAdvance(lexerAdvance(l)))
    ELSE l

lexerSkipLineComment(l) ==
    AdvanceUntilIn(lexerAdvance(lexerAdvance(l)), {"\n"})

\* the loop of lexerSkipBlockComment: the lexer after it and whether it met */
RECURSIVE BlockCommentBody(_)
BlockCommentBody(l) ==
    IF lexerIsAtEnd(l) THEN [l |-> l, closed |-> FALSE]
    ELSE IF lexerCurrentChar(l) = "*" /\ lexerPeekNext(l) = "/"
         THEN [l |-> lexerAdvance(lexerAdvance(l)), closed |-> TRUE]
    ELSE BlockCommentBody(lexerAdvance(l))

LevelOf(errorType) ==
    IF errorType \in {"LEX_ERROR_UNTERMINATED_COMMENT", "LEX_ERROR_UNTERMINATED_CHAR",
                      "LEX_ERROR_UNTERMINATED_STRING", "LEX_ERROR_EOF_IN_PREPROCESSOR",
                      "LEX_ERROR_MISMATCHED_BRACKET"}
    THEN "FATAL" ELSE "ERROR"

lexerReportError(errorType, location) ==
    [level |-> LevelOf(errorType), error |-> errorType, location |-> location]

\* a report that takes the location where the scan gave up
lexerSkipBlockComment_EndLocation(l) ==
    LET body == BlockCommentBody(lexerAdvance(lexerAdvance(l)))
    IN  IF body.closed
        THEN [l |-> body.l, ret |-> TRUE, reports |-> <<>>]
        ELSE [l |-> body.l, ret |-> FALSE,
              reports |-> <<lexerReportError("LEX_ERROR_UNTERMINATED_COMMENT",
                              lexerCreateCurrentLocation(body.l))>>]

lexerSkipBlockComment(l) ==
    LET body == BlockCommentBody(lexerAdvance(lexerAdvance(l)))
    IN  IF body.closed
        THEN [l |-> body.l, ret |-> TRUE, reports |-> <<>>]
        ELSE [l |-> body.l, ret |-> FALSE,
              reports |-> <<lexerReportError("LEX_ERROR_UNTERMINATED_COMMENT",
                              createSourceLocation(l.line, l.column, l.position))>>]

lexerSkipComment(l) ==
    IF lexerIsAtEnd(l) THEN [l |-> l, ret |-> TRUE, reports |-> <<>>]
    ELSE IF lexerCurrentChar(l) = "/" /\ lexerPeekNext(l) = "/"
         THEN [l |-> lexerSkipLineComment(l), ret |-> TRUE, reports |-> <<>>]
    ELSE IF lexerCurrentChar(l) = "/" /\ lexerPeekNext(l) = "*"
         THEN lexerSkipBlockComment(l)
    ELSE [l |-> l, ret |-> FALSE, reports |-> <<>>]

-----------------------------------------------------------------------------
(* Tokens *)

\* enum TokenType, in declaration order (index - 1 is the enum value)
TokenTypeEnum == <<
    "TOKEN_INT", "TOKEN_FLOAT", "TOKEN_CHAR", "TOKEN_DOUBLE", "TOKEN_VOID", "TOKEN_IF",
    "TOKEN_ELSE", "TOKEN_WHILE", "TOKEN_FOR", "TOKEN_DO", "TOKEN_RETURN",
    "TOKEN_BREAK", "TOKEN_CONTINUE", "TOKEN_SWITCH", "TOKEN_CASE", "TOKEN_DEFAULT",
    "TOKEN_STRUCT", "TOKEN_UNION", "TOKEN_ENUM", "TOKEN_TYPEDEF", "TOKEN_STATIC",
    "TOKEN_EXTERN", "TOKEN_CONST", "TOKEN_UNSIGNED", "TOKEN_SIGNED", "TOKEN_SIZEOF",
    "TOKEN_AUTO", "TOKEN_REGISTER", "TOKEN_VOLATILE", "TOKEN_GOTO", "TOKEN_ALIGNAS",
    "TOKEN_ALIGNOF", "TOKEN_ATOMIC", "TOKEN_GENERIC", "TOKEN_STATIC_ASSERT",
    "TOKEN_THREAD_LOCAL", "TOKEN_NORETURN", "TOKEN_IDENTIFIER",
    "TOKEN_INTEGER_LITERAL", "TOKEN_FLOAT_LITERAL", "TOKEN_CHAR_LITERAL",
    "TOKEN_STRING_LITERAL", "TOKEN_PLUS", "TOKEN_MINUS", "TOKEN_MULTIPLY",
    "TOKEN_DIVIDE", "TOKEN_MODULO", "TOKEN_ASSIGN", "TOKEN_PLUS_ASSIGN",
    "TOKEN_MINUS_ASSIGN", "TOKEN_MULTIPLY_ASSIGN", "TOKEN_DIVIDE_ASSIGN",
    "TOKEN_MODULO_ASSIGN", "TOKEN_EQUAL", "TOKEN_NOT_EQUAL", "TOKEN_LESS",
    "TOKEN_LESS_EQUAL", "TOKEN_GREATER", "TOKEN_GREATER_EQUAL", "TOKEN_LOGICAL_AND",
    "TOKEN_LOGICAL_OR", "TOKEN_LOGICAL_NOT", "TOKEN_BITWISE_AND", "TOKEN_BITWISE_OR",
    "TOKEN_BITWISE_NOT", "TOKEN_BITWISE_XOR", "TOKEN_LEFT_SHIFT", "TOKEN_RIGHT_SHIFT",
    "TOKEN_INCREMENT", "TOKEN_DECREMENT", "TOKEN_LPAREN", "TOKEN_RPAREN",
    "TOKEN_LBRACKET", "TOKEN_RBRACKET", "TOKEN_LBRACE", "TOKEN_RBRACE",
    "TOKEN_SEMICOLON", "TOKEN_COMMA", "TOKEN_DOT", "TOKEN_ARROW", "TOKEN_COLON",
    "TOKEN_QUESTION", "TOKEN_ELLIPSSIS", "TOKEN_EOF", "TOKEN_NEWLINE",
    "TOKEN_WHITESPACE", "TOKEN_COMMENT", "TOKEN_UNKNOWN", "TOKEN_HASH",
    "TOKEN_HASH_HASH", "TOKEN_PREPROCESSOR_DEFINE", "TOKEN_PREPROCESSOR_UNDEF",
    "TOKEN_PREPROCESSOR_INCLUDE", "TOKEN_PREPROCESSOR_IF", "TOKEN_PREPROCESSOR_IFDEF",
    "TOKEN_PREPROCESSOR_IFNDEF", "TOKEN_PREPROCESSOR_ELIF", "TOKEN_PREPROCESSOR_ELSE",
    "TOKEN_PREPROCESSOR_ENDIF", "TOKEN_PREPROCESSOR_LINE", "TOKEN_PREPROCESSOR_ERROR",
    "TOKEN_PREPROCESSOR_PRAGMA", "TOKEN_PREPROCESSOR_WARNING" >>

tokenTypeStrings == <<
    "int", "float", "char", "double", "void", "if", "else", "while", "for", "do",
    "return", "break", "continue", "switch", "case", "default", "struct", "union",
    "enum", "typedef", "static", "extern", "const", "unsigned", "signed", "sizeof",
    "auto", "register", "volatile", "goto", "alignas", "alignof", "atomic", "generic",
    "static_assert", "thread_local", "noreturn", "identifier", "integer_literal",
    "float_literal", "char_literal", "string_literal", "+", "-", "*", "/", "%", "=",
    "+=", "-=", "*=", "/=", "%=", "==", "!=", "<", "<=", ">", ">=", "&&", "||", "!",
    "&", "|", "~", "^", "<<", ">>", "++", "--", "{", "}", "(", ")", "[", "]", ".", ",",
    ";", ":", "?", "...", "->", "->*", "eof", "newline", "whitespace", "comment",
    "preprocessor", "unknown" >>

keywordTable == <<
    <<"int", "TOKEN_INT">>, <<"float", "TOKEN_FLOAT">>, <<"char", "TOKEN_CHAR">>,
    <<"double", "TOKEN_DOUBLE">>, <<"void", "TOKEN_VOID">>, <<"if", "TOKEN_IF">>,
    <<"else", "TOKEN_ELSE">>, <<"while", "TOKEN_WHILE">>, <<"for", "TOKEN_FOR">>,
    <<"do", "TOKEN_DO">>, <<"return", "TOKEN_RETURN">>, <<"break", "TOKEN_BREAK">>,
    <<"continue", "TOKEN_CONTINUE">>, <<"switch", "TOKEN_SWITCH">>,
    <<"case", "TOKEN_CASE">>, <<"default", "TOKEN_DEFAULT">>,
    <<"struct", "TOKEN_STRUCT">>, <<"union", "TOKEN_UNION">>, <<"enum", "TOKEN_ENUM">>,
    <<"typedef", "TOKEN_TYPEDEF">>, <<"static", "TOKEN_STATIC">>,
    <<"extern", "TOKEN_EXTERN">>, <<"const", "TOKEN_CONST">>,
    <<"unsigned", "TOKEN_UNSIGNED">>, <<"signed", "TOKEN_SIGNED">>,
    <<"sizeof", "TOKEN_SIZEOF">>, <<"auto", "TOKEN_AUTO">>,
    <<"register", "TOKEN_REGISTER">>, <<"volatile", "TOKEN_VOLATILE">>,
    <<"goto", "TOKEN_GOTO">>, <<"alignas", "TOKEN_ALIGNAS">>,
    <<"_Alignas", "TOKEN_ALIGNAS">>, <<"alignof", "TOKEN_ALIGNOF">>,
    <<"_Alignof", "TOKEN_ALIGNOF">>, <<"atomic", "TOKEN_ATOMIC">>,
    <<"_Atomic", "TOKEN_ATOMIC">>, <<"generic", "TOKEN_GENERIC">>,
    <<"_Generic", "TOKEN_GENERIC">>, <<"static_assert", "TOKEN_STATIC_ASSERT">>,
    <<"_Static_assert", "TOKEN_STATIC_ASSERT">>,
    <<"thread_local", "TOKEN_THREAD_LOCAL">>,
    <<"_Thread_local", "TOKEN_THREAD_LOCAL">>, <<"noreturn", "TOKEN_NORETURN">>,
    <<"_Noreturn", "TOKEN_NORETURN">> >>

preprocessorDirectiveTable == <<
    <<"define", "TOKEN_PREPROCESSOR_DEFINE">>, <<"undef", "TOKEN_PREPROCESSOR_UNDEF">>,
    <<"include", "TOKEN_PREPROCESSOR_INCLUDE">>, <<"if", "TOKEN_PREPROCESSOR_IF">>,
    <<"ifdef", "TOKEN_PREPROCESSOR_IFDEF">>, <<"ifndef", "TOKEN_PREPROCESSOR_IFNDEF">>,
    <<"elif", "TOKEN_PREPROCESSOR_ELIF">>, <<"else", "TOKEN_PREPROCESSOR_ELSE">>,
    <<"endif", "TOKEN_PREPROCESSOR_ENDIF">>, <<"line", "TOKEN_PREPROCESSOR_LINE">>,
    <<"error", "TOKEN_PREPROCESSOR_ERROR">>, <<"pragma", "TOKEN_PREPROCESSOR_PRAGMA">>,
    <<"warning", "TOKEN_PREPROCESSOR_WARNING">> >>

\* (byte value, character) for the printable characters
AsciiTable == {
    <<32, " ">>, <<33, "!">>, <<34, "\"">>, <<35, "#">>, <<36, "$">>, <<37, "%">>,
    <<38, "&">>, <<39, "'">>, <<40, "(">>, <<41, ")">>, <<42, "*">>, <<43, "+">>,
    <<44, ",">>, <<45, "-">>, <<46, ".">>, <<47, "/">>, <<48, "0">>, <<49, "1">>,
    <<50, "2">>, <<51, "3">>, <<52, "4">>, <<53, "5">>, <<54, "6">>, <<55, "7">>,
    <<56, "8">>, <<57, "9">>, <<58, ":">>, <<59, ";">>, <<60, "<">>, <<61, "=">>,
    <<62, ">">>, <<63, "?">>, <<64, "@">>, <<65, "A">>, <<66, "B">>, <<67, "C">>,
    <<68, "D">>, <<69, "E">>, <<70, "F">>, <<71, "G">>, <<72, "H">>, <<73, "I">>,
    <<74, "J">>, <<75, "K">>, <<76, "L">>, <<77, "M">>, <<78, "N">>, <<79, "O">>,
    <<80, "P">>, <<81, "Q">>, <<82, "R">>, <<83, "S">>, <<84, "T">>, <<85, "U">>,
    <<86, "V">>, <<87, "W">>, <<88, "X">>, <<89, "Y">>, <<90, "Z">>, <<91, "[">>,
    <<92, "\\">>, <<93, "]">>, <<94, "^">>, <<95, "_">>, <<97, "a">>, <<98, "b">>,
    <<99, "c">>, <<100, "d">>, <<101, "e">>, <<102, "f">>, <<103, "g">>, <<104, "h">>,
    <<105, "i">>, <<106, "j">>, <<107, "k">>, <<108, "l">>, <<109, "m">>, <<110, "n">>,
    <<111, "o">>, <<112, "p">>, <<113, "q">>, <<114, "r">>, <<115, "s">>, <<116, "t">>,
    <<117, "u">>, <<118, "v">>, <<119, "w">>, <<120, "x">>, <<121, "y">>, <<122, "z">>,
    <<123, "{">>, <<124, "|">>, <<125, "}">>, <<126, "~">> }

IndexOf(seq, x) == CHOOSE i \in 1..Len(seq) : seq[i] = x

tokenTypeToString(type) ==
    IF IndexOf(TokenTypeEnum, type) <= Len(tokenTypeStrings)
    THEN tokenTypeStrings[IndexOf(TokenTypeEnum, type)]
    ELSE "unknown"

\* the C string held in a char array: the characters before the first byte 0
RECURSIVE CStr(_)
CStr(chars) ==
    IF chars = <<>> \/ Head(chars) = NUL THEN <<>>
    ELSE <<Head(chars)>> \o CStr(Tail(chars))

RECURSIVE Str(_)
Str(chars) == IF chars = <<>> THEN "" ELSE Head(chars) \o Str(Tail(chars))

Chars(l, from, to) ==
    IF to <= from THEN <<>> ELSE [i \in 1..(to - from) |-> CharAt(l, from + i - 1)]

\* lexeme = NULL is hasLexeme = FALSE
createToken(type, lexeme, hasLexeme, location) ==
    [type |-> type, lexeme |-> lexeme, hasLexeme |-> hasLexeme, location |-> location,
     hasValue |-> FALSE, isWide |-> FALSE, literalType |-> "LITERAL_TYPE_DECIMAL",
     intValue |-> 0, floatValue |-> <<0, 0>>, charValue |-> NUL, stringValue |-> <<>>]

createEOFToken(location) == createToken("TOKEN_EOF", "", FALSE, location)

createOperatorToken(type, location) ==
    createToken(type, tokenTypeToString(type), TRUE, location)

createPunctuationToken(type, location) ==
    createToken(type, tokenTypeToString(type), TRUE, location)

\* strtoll on a digit string without sign or prefix: the leading digits valid in base
RECURSIVE strtollFrom(_, _, _)
strtollFrom(chars, base, acc) ==
    IF chars # <<>> /\ Head(chars) \in XDigits /\ DigitValue(Head(chars)) < base
    THEN strtollFrom(Tail(chars), base, acc * base + DigitValue(Head(chars)))
    ELSE acc

strtoll(chars, base) == strtollFrom(chars, base, 0)

createIntegerToken(chars, location, base) ==
    [createToken("TOKEN_INTEGER_LITERAL", Str(chars), TRUE, location) EXCEPT
        !.intValue = strtoll(chars, base),
        !.hasValue = TRUE,
        !.literalType = CASE base = 16 -> "LITERAL_TYPE_HEXADECIMAL"
                          [] base = 8 -> "LITERAL_TYPE_OCTAL"
                          [] base = 2 -> "LITERAL_TYPE_BINARY"
                          [] OTHER -> "LITERAL_TYPE_DECIMAL"]

\* the length of the longest prefix of chars made of characters of S
RECURSIVE Run(_, _)
Run(chars, S) ==
    IF chars # <<>> /\ Head(chars) \in S THEN 1 + Run(Tail(chars), S) ELSE 0

Drop(chars, n) == SubSeq(chars, n + 1, Len(chars))

RECURSIVE Pow10(_)
Pow10(n) == IF n <= 0 THEN 1 ELSE 10 * Pow10(n - 1)

\* a decimal value m * 10^e with the trailing zeros of m moved into e
RECURSIVE Normal(_, _)
Normal(m, e) ==
    IF m = 0 THEN <<0, 0>>
    ELSE IF m % 10 = 0 THEN Normal(m \div 10, e + 1)
    ELSE <<m, e>>

\* strtod on an unsigned decimal string: digits, optional fraction, optional
\* exponent (taken only when it has a digit); the value is <<m, e>> for m * 10^e
strtod(chars) ==
    LET ni == Run(chars, Digits)
        r1 == Drop(chars, ni)
        hasDot == r1 # <<>> /\ Head(r1) = "."
        nf == IF hasDot THEN Run(Tail(r1), Digits) ELSE 0
        r2 == IF hasDot THEN Drop(r1, nf + 1) ELSE r1
        mant == strtoll(SubSeq(chars, 1, ni), 10) * Pow10(nf)
                  + (IF hasDot THEN strtoll(Tail(r1), 10) ELSE 0)
        hasE == r2 # <<>> /\ Head(r2) \in {"e", "E"}
        r3 == IF hasE THEN Tail(r2) ELSE r2
        neg == hasE /\ r3 # <<>> /\ Head(r3) = "-"
        r4 == IF hasE /\ r3 # <<>> /\ Head(r3) \in {"+", "-"} THEN Tail(r3) ELSE r3
        ne == IF hasE THEN Run(r4, Digits) ELSE 0
        ex == IF ne = 0 THEN 0
              ELSE IF neg THEN 0 - strtoll(r4, 10) ELSE strtoll(r4, 10)
    IN  IF ni + nf = 0 THEN <<0, 0>> ELSE Normal(mant, ex - nf)

createFloatToken(chars, location) ==
    [createToken("TOKEN_FLOAT_LITERAL", Str(chars), TRUE, location) EXCEPT
        !.floatValue = strtod(chars),
        !.hasValue = TRUE,
        !.literalType = "LITERAL_TYPE_DOUBLE"]

createTokenWithCharValue(type, chars, location, charValue, isWide) ==
    [createToken(type, Str(CStr(chars)), TRUE, location) EXCEPT
        !.charValue = charValue,
        !.hasValue = TRUE,
        !.isWide = isWide,
        !.literalType = IF isWide THEN "LITERAL_TYPE_WCHAR" ELSE "LITERAL_TYPE_CHAR"]

createTokenWithStringValue(type, lexeme, location, buffer, isWide) ==
    [createToken(type, lexeme, TRUE, location) EXCEPT
        !.stringValue = CStr(buffer),
        !.hasValue = TRUE,
        !.isWide = isWide,
        !.literalType = IF isWide THEN "LITERAL_TYPE_WSTRING" ELSE "LITERAL_TYPE_STRING"]

-----------------------------------------------------------------------------
(* Lexer: identifiers, keywords, preprocessor directives *)

Lookup(table, str, default) ==
    IF \E i \in 1..Len(table) : table[i][1] = str
    THEN table[CHOOSE i \in 1..Len(table) :
                   /\ table[i][1] = str
                   /\ \A j \in 1..(i - 1) : table[j][1] # str][2]
    ELSE default

lexerIsKeyword(str) == Lookup(keywordTable, str, "TOKEN_IDENTIFIER")

lexerIsPreprocessorDirective(str) ==
    Lookup(preprocessorDirectiveTable, str, "TOKEN_IDENTIFIER")

\* every scanner yields the lexer after the scan and the token it returns
lexerReadIdentifier(l) ==
    LET l1 == IF lexerCurrentChar(l) \in Alpha \cup {"_"} THEN lexerAdvance(l) ELSE l
        l2 == AdvanceWhileIn(l1, AlNum \cup {"_"})
        lexeme == Text(l, l.position, l2.position)
    IN  [l |-> l2,
         tok |-> createToken(lexerIsKeyword(lexeme), lexeme, TRUE,
                             createSourceLocation(l.line, l.column, l.position))]

lexerReadPreprocessorDirective(l) ==
    LET l1 == lexerSkipWhitespace(lexerAdvance(l))
        l2 == AdvanceWhileIn(l1, Alpha)
        directive == Text(l, l1.position, l2.position)
        l3 == AdvanceUntilIn(l2, {"\n"})
    IN  [l |-> l3,
         tok |-> createToken(lexerIsPreprocessorDirective(directive),
                             Text(l, l.position, l3.position), TRUE,
                             createSourceLocation(l.line, l.column, l.position))]

-----------------------------------------------------------------------------
(* Lexer: numbers *)

\* lexerDetectNumberBase without the branch for a leading 0 followed by a digit
lexerDetectNumberBase_OctalAsDecimal(l) ==
    LET ch == lexerCurrentChar(l)
        next == lexerPeekNext(l)
    IN  IF ch = "0" /\ next \in {"x", "X"}
        THEN [l |-> lexerAdvance(lexerAdvance(l)), base |-> 16]
        ELSE IF ch = "0" /\ next \in {"b", "B"}
        THEN [l |-> lexerAdvance(lexerAdvance(l)), base |-> 2]
        ELSE [l |-> l, base |-> 10]

lexerDetectNumberBase(l) ==
    LET ch == lexerCurrentChar(l)
        next == lexerPeekNext(l)
    IN  IF ch = "0" /\ next \in {"x", "X"}
        THEN [l |-> lexerAdvance(lexerAdvance(l)), base |-> 16]
        ELSE IF ch = "0" /\ next \in {"b", "B"}
        THEN [l |-> lexerAdvance(lexerAdvance(l)), base |-> 2]
        ELSE IF ch = "0" /\ next \in Digits
        THEN [l |-> lexerAdvance(l), base |-> 8]
        ELSE [l |-> l, base |-> 10]

ValidDigits(base) ==
    CASE base = 16 -> XDigits [] base = 10 -> Digits
      [] base = 8 -> OctDigits [] base = 2 -> BinDigits [] OTHER -> {}

lexerReadInteger(l, base) ==
    LET l1 == AdvanceWhileIn(l, ValidDigits(base))
        l2 == AdvanceWhileIn(l1, {"u", "U", "l", "L"})
    IN  [l |-> l2,
         tok |-> createIntegerToken(Chars(l, l.position, l2.position),
                     createSourceLocation(l.line, l.column, l.position), base)]

lexerReadFloat(l) ==
    LET l1 == AdvanceWhileIn(l, Digits)
        l2 == IF lexerCurrentChar(l1) = "."
              THEN AdvanceWhileIn(lexerAdvance(l1), Digits) ELSE l1
        l3 == IF lexerCurrentChar(l2) \in {"e", "E"}
              THEN LET a == lexerAdvance(l2)
                       b == IF lexerCurrentChar(a) \in {"+", "-"}
                            THEN lexerAdvance(a) ELSE a
                   IN  AdvanceWhileIn(b, Digits)
              ELSE l2
        l4 == IF lexerCurrentChar(l3) \in {"f", "F", "l", "L"}
              THEN lexerAdvance(l3) ELSE l3
    IN  [l |-> l4,
         tok |-> createFloatToken(Chars(l, l.position, l4.position),
                     createSourceLocation(l.line, l.column, l.position))]

\* the decimal branch of lexerReadNumber: is the digit run followed by . e E
DecimalIsFloat(l) ==
    LET ahead == AdvanceWhileIn(l, Digits)
    IN  ~lexerIsAtEnd(ahead) /\ lexerCurrentChar(ahead) \in {".", "e", "E"}

lexerReadNumber(l) ==
    LET det == lexerDetectNumberBase(l)
        int == lexerReadInteger(det.l, det.base)
    IN  IF det.base # 10
        THEN IF lexerCurrentChar(int.l) = "."
             THEN lexerReadFloat([int.l EXCEPT !.position = det.l.position - 2,
                                               !.column = det.l.column,
                                               !.line = det.l.line])
             ELSE int
        ELSE IF DecimalIsFloat(l) THEN lexerReadFloat(l)
        ELSE lexerReadInteger(l, 10)

-----------------------------------------------------------------------------
(* Lexer: character and string literals *)

\* (char)value: the character whose byte is value mod 256
ByteToChar(value) ==
    LET b == value % 256
    IN  CASE b = 0 -> NUL [] b = 7 -> BEL [] b = 8 -> BS [] b = 9 -> "\t"
          [] b = 10 -> "\n" [] b = 11 -> VT [] b = 12 -> "\f" [] b = 13 -> "\r"
          [] \E e \in AsciiTable : e[1] = b -> (CHOOSE e \in AsciiTable : e[1] = b)[2]
          [] OTHER -> "<" \o ToString(b) \o ">"

\* up to max characters of S from the current position: the lexer after them
RECURSIVE AdvanceUpTo(_, _, _)
AdvanceUpTo(l, S, max) ==
    IF max > 0 /\ ~lexerIsAtEnd(l) /\ lexerCurrentChar(l) \in S
    THEN AdvanceUpTo(lexerAdvance(l), S, max - 1)
    ELSE l

SimpleEscapes ==
    [c \in {"n", "t", "r", "b", "f", "v", "a", "\\", "?", "'", "\""} |->
        CASE c = "n" -> "\n" [] c = "t" -> "\t" [] c = "r" -> "\r" [] c = "b" -> BS
          [] c = "f" -> "\f" [] c = "v" -> VT [] c = "a" -> BEL [] OTHER -> c]

\* called at a backslash: the lexer after the escape, the decoded character, *success
lexerProcessEscapeSequence(l) ==
    LET l1 == lexerAdvance(l)
        ch == lexerCurrentChar(l1)
    IN  IF lexerIsAtEnd(l1) THEN [l |-> l1, ch |-> "\\", success |-> FALSE]
        ELSE IF ch \in DOMAIN SimpleEscapes
        THEN [l |-> lexerAdvance(l1), ch |-> SimpleEscapes[ch], success |-> TRUE]
        ELSE IF ch \in OctDigits
        THEN LET l2 == AdvanceUpTo(l1, OctDigits, 3)
             IN  [l |-> l2, success |-> TRUE,
                  ch |-> ByteToChar(strtoll(Chars(l1, l1.position, l2.position), 8))]
        ELSE IF ch \in {"x", "X"}
        THEN LET l2 == AdvanceUpTo(lexerAdvance(l1), XDigits, 2)
             IN  [l |-> l2, success |-> TRUE,
                  ch |-> ByteToChar(strtoll(Chars(l1, l1.position + 1, l2.position), 16))]
        ELSE IF ch \in {"u", "U"}
        THEN [l |-> AdvanceUpTo(lexerAdvance(l1), XDigits, IF ch = "u" THEN 4 ELSE 8),
              ch |-> "?", success |-> TRUE]
        ELSE [l |-> lexerAdvance(l1), ch |-> ch, success |-> FALSE]

\* With isWide the array lexeme[4] is filled without a terminating 0; that
\* branch needs the current character to be L, which lexerNextToken hands to
\* lexerReadIdentifier, so it is given the four characters written.
lexerReadChar(l) ==
    LET isWide == lexerCurrentChar(l) = "L"
        l1 == lexerAdvance(IF isWide THEN lexerAdvance(l) ELSE l)
        location == createSourceLocation(l.line, l.column, l.position)
        esc == lexerProcessEscapeSequence(l1)
        l2 == IF lexerCurrentChar(l1) = "\\" THEN esc.l ELSE lexerAdvance(l1)
        value == IF lexerCurrentChar(l1) = "\\" THEN esc.ch ELSE lexerCurrentChar(l1)
        l3 == IF ~lexerIsAtEnd(l2) /\ lexerCurrentChar(l2) = "'"
              THEN lexerAdvance(l2) ELSE l2
        lexeme == IF isWide THEN <<"L", "'", value, "'">> ELSE <<"'", value, "'">>
    IN  IF lexerIsAtEnd(l1) THEN [l |-> l1, tok |-> createEOFToken(location)]
        ELSE [l |-> l3,
              tok |-> createTokenWithCharValue("TOKEN_CHAR_LITERAL", lexeme, location,
                                               value, isWide)]

\* the loop of lexerReadString: the lexer after it and the decoded buffer
RECURSIVE StringBody(_, _)
StringBody(l, buffer) ==
    IF lexerIsAtEnd(l) THEN [l |-> l, buffer |-> buffer]
    ELSE IF lexerCurrentChar(l) = "\"" THEN [l |-> lexerAdvance(l), buffer |-> buffer]
    ELSE IF lexerCurrentChar(l) = "\n" THEN [l |-> l, buffer |-> buffer]
    ELSE IF lexerCurrentChar(l) = "\\"
         THEN LET esc == lexerProcessEscapeSequence(l)
              IN  StringBody(esc.l, Append(buffer, esc.ch))
    ELSE StringBody(lexerAdvance(l), Append(buffer, lexerCurrentChar(l)))

lexerReadString(l) ==
    LET isWide == lexerCurrentChar(l) = "L"
        l1 == lexerAdvance(IF isWide THEN lexerAdvance(l) ELSE l)
        body == StringBody(l1, <<>>)
    IN  [l |-> body.l,
         tok |-> createTokenWithStringValue("TOKEN_STRING_LITERAL",
                     Text(l, l.position, body.l.position),
                     createSourceLocation(l.line, l.column, l.position),
                     body.buffer, isWide)]

-----------------------------------------------------------------------------
(* Lexer: operators and punctuation *)

\* case ch: advance; if next is in the table, advance again and give that type
TwoCharOps ==
    [c \in {"=", "!", "&", "|", "^", "+", "-", "*", "/", "%"} |->
        CASE c = "=" -> <<"TOKEN_ASSIGN", <<"=", "TOKEN_EQUAL">> >>
          [] c = "!" -> <<"TOKEN_LOGICAL_NOT", <<"=", "TOKEN_NOT_EQUAL">> >>
          [] c = "&" -> <<"TOKEN_BITWISE_AND", <<"&", "TOKEN_LOGICAL_AND">>,
                                               <<"=", "TOKEN_BITWISE_AND">> >>
          [] c = "|" -> <<"TOKEN_BITWISE_OR", <<"|", "TOKEN_LOGICAL_OR">>,
                                              <<"=", "TOKEN_BITWISE_OR">> >>
          [] c = "^" -> <<"TOKEN_BITWISE_XOR", <<"=", "TOKEN_BITWISE_XOR">> >>
          [] c = "+" -> <<"TOKEN_PLUS", <<"+", "TOKEN_INCREMENT">>,
                                        <<"=", "TOKEN_PLUS_ASSIGN">> >>
          [] c = "-" -> <<"TOKEN_MINUS", <<"-", "TOKEN_DECREMENT">>,
                                         <<"=", "TOKEN_MINUS_ASSIGN">>,
                                         <<">", "TOKEN_ARROW">> >>
          [] c = "*" -> <<"TOKEN_MULTIPLY", <<"=", "TOKEN_MULTIPLY_ASSIGN">> >>
          [] c = "/" -> <<"TOKEN_DIVIDE", <<"=", "TOKEN_DIVIDE_ASSIGN">> >>
          [] OTHER -> <<"TOKEN_MODULO", <<"=", "TOKEN_MODULO_ASSIGN">> >>]

OneCharPunct ==
    [c \in {"(", ")", "[", "]", ";", ",", ":", "?", "~"} |->
        CASE c = "(" -> "TOKEN_LPAREN" [] c = ")" -> "TOKEN_RPAREN"
          [] c = "[" -> "TOKEN_LBRACKET" [] c = "]" -> "TOKEN_RBRACKET"
          [] c = ";" -> "TOKEN_SEMICOLON" [] c = "," -> "TOKEN_COMMA"
          [] c = ":" -> "TOKEN_COLON" [] c = "?" -> "TOKEN_QUESTION"
          [] OTHER -> "TOKEN_BITWISE_NOT"]

lexerReadOperatorOrPunctuation(l) ==
    LET ch == lexerCurrentChar(l)
        next == lexerPeekNext(l)
        location == createSourceLocation(l.line, l.column, l.position)
        l1 == lexerAdvance(l)
        l2 == lexerAdvance(l1)
        l3 == lexerAdvance(l2)
        Op(lx, type) == [l |-> lx, tok |-> createOperatorToken(type, location)]
    IN  IF ch \in DOMAIN TwoCharOps
        THEN LET row == TwoCharOps[ch]
                 hit == {i \in 2..Len(row) : row[i][1] = next}
             IN  IF hit = {} THEN Op(l1, row[1])
                 ELSE Op(l2, row[CHOOSE i \in hit : TRUE][2])
        ELSE IF ch \in {"<", ">"}
        THEN IF next = "="
             THEN Op(l2, IF ch = "<" THEN "TOKEN_LESS_EQUAL" ELSE "TOKEN_GREATER_EQUAL")
             ELSE IF next = ch
             THEN Op(IF lexerPeekNext(l2) = "=" THEN l3 ELSE l2,
                     IF ch = "<" THEN "TOKEN_LEFT_SHIFT" ELSE "TOKEN_RIGHT_SHIFT")
             ELSE Op(l1, IF ch = "<" THEN "TOKEN_LESS" ELSE "TOKEN_GREATER")
        ELSE IF ch = "."
        THEN IF next = "." /\ lexerPeekNext(l2) = "." THEN Op(l3, "TOKEN_ELLIPSSIS")
             ELSE IF next = "." THEN Op(l2, "TOKEN_DOT")
             ELSE Op(l1, "TOKEN_DOT")
        ELSE IF ch \in DOMAIN OneCharPunct THEN Op(l1, OneCharPunct[ch])
        ELSE IF ch = "{" THEN [l |-> l1, tok |-> createToken("TOKEN_LBRACE", "{", TRUE, location)]
        ELSE IF ch = "}" THEN [l |-> l1, tok |-> createToken("TOKEN_RBRACE", "}", TRUE, location)]
        ELSE [l |-> l1, tok |-> createToken("TOKEN_UNKNOWN", "", FALSE, location)]

-----------------------------------------------------------------------------
(* Lexer: lexerNextToken after its whitespace and comment loop *)

ScanToken(l) ==
    LET ch == lexerCurrentChar(l)
    IN  IF lexerIsAtEnd(l)
        THEN [l |-> l, tok |-> createEOFToken(lexerCreateCurrentLocation(l))]
        ELSE IF ch = "#" THEN lexerReadPreprocessorDirective(l)
        ELSE IF ch \in Alpha \cup {"_"} THEN lexerReadIdentifier(l)
        ELSE IF ch \in Digits THEN lexerReadNumber(l)
        ELSE IF ch = "'" \/ (ch = "L" /\ lexerPeekNext(l) = "'") THEN lexerReadChar(l)
        ELSE IF ch = "\"" \/ (ch = "L" /\ lexerPeekNext(l) = "\"") THEN lexerReadString(l)
        ELSE IF ch \in Punct THEN lexerReadOperatorOrPunctuation(l)
        ELSE [l |-> lexerAdvance(l),
              tok |-> createToken("TOKEN_UNKNOWN", "", FALSE, lexerCreateCurrentLocation(l))]

-----------------------------------------------------------------------------
(* Lexer: the operations lexerNextToken, lexerPeekToken, lexerTokenize *)

LexAlphabet == {"\n", "/", "*", "a", "0", ".", "'"}

Sources == UNION {[1..n -> LexAlphabet] : n \in 0..MaxLen}

NoToken == createToken("NONE", "", FALSE, createSourceLocation(0, 0, 0))

NoSaved == [position |-> 0, line |-> 0, column |-> 0, lineStartOffset |-> 0]

\* the lexer as an operation finds it, with the number of reports made so far
Called(l, d) == l @@ ("reported" :> Len(d))

NULL == 0

\* no astBuilder* operation has been called
NoCall == [op |-> "none", args |-> <<>>, ret |-> NULL, reports |-> 0]

createDiagnosticEngine ==
    [errorCount |-> 0, warningCount |-> 0, suppressErrors |-> FALSE,
     suppressWarnings |-> FALSE, fatalErrorOccurred |-> FALSE]

\* a diagnostic engine on which nothing has been called
EngineIdle ==
    /\ engine = createDiagnosticEngine
    /\ history = <<>>

\* what the other components hold while the lexer runs
AstIdle ==
    /\ heap = <<>>
    /\ root = 0
    /\ build = "none"
    /\ astPc = "none"
    /\ target = 0
    /\ before = <<>>
    /\ lastCall = NoCall
    /\ added = <<>>

NoVisitor == [slots |-> {}, hasBeforeVisit |-> FALSE, rejects |-> {},
              hasAfterVisit |-> FALSE]

VisIdle ==
    /\ visitor = NoVisitor
    /\ trace = <<>>
    /\ visPc = "none"

LexInit ==
    /\ lexer \in {createLexer(s) : s \in Sources}
    /\ pc = "idle"
    /\ op = "none"
    /\ saved = NoSaved
    /\ callState = Called(lexer, <<>>)
    /\ tokens = <<>>
    /\ lastToken = NoToken
    /\ diags = <<>>
    /\ AstIdle
    /\ VisIdle
    /\ EngineIdle

\* the line and column counters are followed up to MaxLine and MaxColumn
InRange(l) == l.line <= MaxLine /\ l.column <= MaxColumn

\* lexerPeekToken: the four fields it saves before calling lexerNextToken
PeekSave(l) ==
    [position |-> l.position, line |-> l.line, column |-> l.column,
     lineStartOffset |-> l.lineStartOffset]

\* a restore that forgets lineStartOffset
PeekRestore_NoLineStart(l, s) ==
    [l EXCEPT !.position = s.position, !.line = s.line, !.column = s.column]

\* lexerPeekToken: the four fields it puts back after lexerNextToken
PeekRestore(l, s) ==
    [l EXCEPT !.position = s.position, !.line = s.line, !.column = s.column,
              !.lineStartOffset = s.lineStartOffset]

\* a loop that tests for EOF before it appends
TokenizePush_NoEOF(v, tok) == IF tok.type = "TOKEN_EOF" THEN v ELSE Append(v, tok)

\* lexerTokenize: vectorPushBack(tokens, &token)
TokenizePush(v, tok) == Append(v, tok)

CallNextToken ==
    /\ pc = "idle"
    /\ InRange(lexer)
    /\ op' = "next"
    /\ pc' = "ws"
    /\ callState' = Called(lexer, diags)
    /\ UNCHANGED <<lexer, saved, tokens, lastToken, diags>>
    /\ UNCHANGED <<astVars, visVars, engVars>>

CallPeekToken ==
    /\ pc = "idle"
    /\ InRange(lexer)
    /\ op' = "peek"
    /\ saved' = PeekSave(lexer)
    /\ pc' = "ws"
    /\ callState' = Called(lexer, diags)
    /\ UNCHANGED <<lexer, tokens, lastToken, diags>>
    /\ UNCHANGED <<astVars, visVars, engVars>>

CallTokenize ==
    /\ pc = "idle"
    /\ InRange(lexer)
    /\ op' = "tokenize"
    /\ tokens' = <<>>
    /\ pc' = "ws"
    /\ callState' = Called(lexer, diags)
    /\ UNCHANGED <<lexer, saved, lastToken, diags>>
    /\ UNCHANGED <<astVars, visVars, engVars>>

\* lexerNextToken: lexerSkipWhitespace(lexer), before the loop and as its body
SkipWhitespaceStep ==
    /\ pc = "ws"
    /\ lexer' = lexerSkipWhitespace(lexer)
    /\ pc' = "comment"
    /\ UNCHANGED <<op, saved, callState, tokens, lastToken, diags>>
    /\ UNCHANGED <<astVars, visVars, engVars>>

\* lexerNextToken: the condition of while (lexerSkipComment(lexer))
SkipCommentStep ==
    /\ pc = "comment"
    /\ LET r == lexerSkipComment(lexer)
       IN  /\ Len(diags) + Len(r.reports) <= MaxDiags
           /\ lexer' = r.l
           /\ diags' = diags \o r.reports
           /\ pc' = IF r.ret THEN "ws" ELSE "scan"
    /\ UNCHANGED <<op, saved, callState, tokens, lastToken>>
    /\ UNCHANGED <<astVars, visVars, engVars>>

\* lexerNextToken returns to the caller of lexerNextToken
NextTokenReturn ==
    /\ pc = "scan"
    /\ op = "next"
    /\ lexer' = ScanToken(lexer).l
    /\ lastToken' = ScanToken(lexer).tok
    /\ pc' = "idle"
    /\ UNCHANGED <<op, saved, callState, tokens, diags>>
    /\ UNCHANGED <<astVars, visVars, engVars>>

\* lexerNextToken returns to lexerPeekToken, which restores and returns
PeekTokenReturn ==
    /\ pc = "scan"
    /\ op = "peek"
    /\ lexer' = PeekRestore(ScanToken(lexer).l, saved)
    /\ lastToken' = ScanToken(lexer).tok
    /\ pc' = "idle"
    /\ UNCHANGED <<op, saved, callState, tokens, diags>>
    /\ UNCHANGED <<astVars, visVars, engVars>>

\* lexerNextToken returns to the loop of lexerTokenize
TokenizeStep ==
    /\ pc = "scan"
    /\ op = "tokenize"
    /\ Len(tokens) < MaxTokens
    /\ InRange(lexer)
    /\ lexer' = ScanToken(lexer).l
    /\ tokens' = TokenizePush(tokens, ScanToken(lexer).tok)
    /\ pc' = IF ScanToken(lexer).tok.type = "TOKEN_EOF" THEN "done" ELSE "ws"
    /\ UNCHANGED <<op, saved, callState, lastToken, diags>>
    /\ UNCHANGED <<astVars, visVars, engVars>>

LexNext ==
    \/ CallNextToken
    \/ CallPeekToken
    \/ CallTokenize
    \/ SkipWhitespaceStep
    \/ SkipCommentStep
    \/ NextTokenReturn
    \/ PeekTokenReturn
    \/ TokenizeStep

LexSpec == LexInit /\ [][LexNext]_vars

\* the program is sequential: a step that can be taken is taken
LexFairSpec == LexSpec /\ WF_vars(LexNext)

-----------------------------------------------------------------------------
(* Lexer: properties *)

IsEOF(tok) == tok.type = "TOKEN_EOF"

\* C1: for every source buffer, lexerTokenize terminates: once called, its
\* loop of lexerNextToken calls reaches the EOF token and returns.
C1_TokenizeTerminates == (op = "tokenize") ~> (pc = "done")

\* C2: the sequence lexerTokenize returns holds exactly one EOF token, and
\* that token is its last element.
C2_OneEOFLast ==
    pc = "done" =>
        /\ Len(tokens) >= 1
        /\ IsEOF(tokens[Len(tokens)])
        /\ \A i \in 1..(Len(tokens) - 1) : ~IsEOF(tokens[i])

\* lexerTokenize has returned a sequence with tokens before its EOF
C2_Witness == pc = "done" /\ Len(tokens) >= 2

\* C3: when lexerPeekToken returns, position, line, column and
\* lineStartOffset are what they were when it was called.
C3_PeekRestoresState ==
    (op = "peek" /\ pc = "idle") =>
        /\ lexer.position = callState.position
        /\ lexer.line = callState.line
        /\ lexer.column = callState.column
        /\ lexer.lineStartOffset = callState.lineStartOffset

\* lexerPeekToken has returned a token that lies on a later line than the
\* one the lexer was on, so the scan moved all four fields
C3_Witness ==
    /\ op = "peek"
    /\ pc = "idle"
    /\ ~IsEOF(lastToken)
    /\ lastToken.location.line > callState.line
    /\ lastToken.location.offset > callState.lineStartOffset

-----------------------------------------------------------------------------
(* Lexer: error reports *)

\* the reports made since the running (or last) operation was called
NewDiags == SubSeq(diags, callState.reported + 1, Len(diags))

\* source[k+1], source[k+2] open a block comment that nothing closes, and
\* only white space stands before it
OpensUnterminatedComment(source, k) ==
    /\ k + 2 <= Len(source)
    /\ \A i \in 1..k : source[i] \in WhiteSpace
    /\ source[k + 1] = "/"
    /\ source[k + 2] = "*"
    /\ \A i \in (k + 3)..(Len(source) - 1) : ~(source[i] = "*" /\ source[i + 1] = "/")

\* the line, column and offset of the character source[k+1]
LocationOf(source, k) ==
    LET newlines == {i \in 1..k : source[i] = "\n"}
        lineStart == IF newlines = {} THEN 0
                     ELSE CHOOSE i \in newlines : \A j \in newlines : j <= i
    IN  createSourceLocation(1 + Cardinality(newlines), k - lineStart + 1, k)

\* C11: lexerTokenize over a buffer whose block comment is never closed
\* makes exactly one report; its level is Fatal and its location is that of
\* the comment's opening /*, not that of the end of the buffer.
C11_UnterminatedCommentReport ==
    \A k \in 0..MaxLen :
        (/\ pc = "done"
         /\ op = "tokenize"
         /\ callState.position = 0
         /\ OpensUnterminatedComment(callState.source, k))
        => /\ Len(NewDiags) = 1
           /\ NewDiags[1].level = "FATAL"
           /\ NewDiags[1].location = LocationOf(callState.source, k)

\* lexerTokenize has returned over a buffer whose unclosed comment opens on
\* the second line, away from the end of the buffer
C11_Witness ==
    /\ pc = "done"
    /\ op = "tokenize"
    /\ callState.position = 0
    /\ OpensUnterminatedComment(callState.source, 1)
    /\ Len(NewDiags) = 1
    /\ NewDiags[1].location.line = 2
    /\ NewDiags[1].location.offset < lexer.position

-----------------------------------------------------------------------------
(* Lexer: buffers of character and string literals *)

MaxLitLen == 4

LitAlphabet == {"'", "\"", "\\", "q", "\n"}

LitSources == UNION {[1..n -> LitAlphabet] : n \in 0..MaxLitLen}

LitInit ==
    /\ lexer \in {createLexer(s) : s \in LitSources}
    /\ pc = "idle"
    /\ op = "none"
    /\ saved = NoSaved
    /\ callState = Called(lexer, <<>>)
    /\ tokens = <<>>
    /\ lastToken = NoToken
    /\ diags = <<>>
    /\ AstIdle
    /\ VisIdle
    /\ EngineIdle

LitSpec == LitInit /\ [][LexNext]_vars

\* the characters after a backslash that begin an escape sequence of C
EscapeLetters == {"n", "t", "r", "b", "f", "v", "a", "\\", "?", "'", "\"",
                  "x", "X", "u", "U"} \cup OctDigits

\* the buffer opens a character literal and holds no closing quote
UnterminatedCharLiteral(source) ==
    /\ Len(source) >= 1
    /\ source[1] = "'"
    /\ \A i \in 2..Len(source) : source[i] # "'"

\* the buffer opens a string literal and holds no quote before the first
\* newline after it, or before its end
UnterminatedStringLiteral(source) ==
    /\ Len(source) >= 1
    /\ source[1] = "\""
    /\ \A i \in 2..Len(source) :
           source[i] = "\"" => \E j \in 2..(i - 1) : source[j] = "\n"

\* the buffer opens a literal whose first character is a backslash followed
\* by a character that begins no escape sequence
InvalidEscapeLiteral(source) ==
    /\ Len(source) >= 3
    /\ source[1] \in {"'", "\""}
    /\ source[2] = "\\"
    /\ source[3] \notin EscapeLetters

MalformedLiteral(source) ==
    \/ UnterminatedCharLiteral(source)
    \/ UnterminatedStringLiteral(source)
    \/ InvalidEscapeLiteral(source)

\* C12: when lexerNextToken returns from a buffer that begins with an
\* unterminated character literal, an unterminated string literal or a
\* literal with an invalid escape sequence, a report has been made whose
\* location is the start of that literal.
C12_MalformedLiteralReported ==
    (/\ op = "next"
     /\ pc = "idle"
     /\ callState.position = 0
     /\ MalformedLiteral(callState.source))
    => \E i \in 1..Len(NewDiags) :
           NewDiags[i].location = LocationOf(callState.source, 0)

\* C13: in the vector lexerTokenize fills, the token scanned at the opening
\* quote of a character or string literal, malformed or not, is not the EOF
\* token, and the scan has moved beyond that quote.
C13_MalformedLiteralYieldsToken ==
    (op = "tokenize" /\ callState.position = 0)
    => \A i \in 1..Len(tokens) :
           CharAt(callState, tokens[i].location.offset) \in {"'", "\""}
           => /\ tokens[i].type # "TOKEN_EOF"
              /\ lexer.position > tokens[i].location.offset

-----------------------------------------------------------------------------
(* Lexer: buffers of operators and punctuators *)

OpAlphabet == {"<", "=", "&", "-", ">", ".", "a"}

OpSources == UNION {[1..n -> OpAlphabet] : n \in 0..MaxLen}

OpInit ==
    /\ lexer \in {createLexer(s) : s \in OpSources}
    /\ pc = "idle"
    /\ op = "none"
    /\ saved = NoSaved
    /\ callState = Called(lexer, <<>>)
    /\ tokens = <<>>
    /\ lastToken = NoToken
    /\ diags = <<>>
    /\ AstIdle
    /\ VisIdle
    /\ EngineIdle

OpSpec == OpInit /\ [][LexNext]_vars

\* enum TokenType: the operators and punctuators with the spelling the
\* declaration gives each of them
OperatorSpellings == {
    <<"TOKEN_PLUS", <<"+">> >>, <<"TOKEN_MINUS", <<"-">> >>,
    <<"TOKEN_MULTIPLY", <<"*">> >>, <<"TOKEN_DIVIDE", <<"/">> >>,
    <<"TOKEN_MODULO", <<"%">> >>, <<"TOKEN_ASSIGN", <<"=">> >>,
    <<"TOKEN_PLUS_ASSIGN", <<"+", "=">> >>, <<"TOKEN_MINUS_ASSIGN", <<"-", "=">> >>,
    <<"TOKEN_MULTIPLY_ASSIGN", <<"*", "=">> >>,
    <<"TOKEN_DIVIDE_ASSIGN", <<"/", "=">> >>,
    <<"TOKEN_MODULO_ASSIGN", <<"%", "=">> >>, <<"TOKEN_EQUAL", <<"=", "=">> >>,
    <<"TOKEN_NOT_EQUAL", <<"!", "=">> >>, <<"TOKEN_LESS", <<"<">> >>,
    <<"TOKEN_LESS_EQUAL", <<"<", "=">> >>, <<"TOKEN_GREATER", <<">">> >>,
    <<"TOKEN_GREATER_EQUAL", <<">", "=">> >>, <<"TOKEN_LOGICAL_AND", <<"&", "&">> >>,
    <<"TOKEN_LOGICAL_OR", <<"|", "|">> >>, <<"TOKEN_LOGICAL_NOT", <<"!">> >>,
    <<"TOKEN_BITWISE_AND", <<"&">> >>, <<"TOKEN_BITWISE_OR", <<"|">> >>,
    <<"TOKEN_BITWISE_NOT", <<"~">> >>, <<"TOKEN_BITWISE_XOR", <<"^">> >>,
    <<"TOKEN_LEFT_SHIFT", <<"<", "<">> >>, <<"TOKEN_RIGHT_SHIFT", <<">", ">">> >>,
    <<"TOKEN_INCREMENT", <<"+", "+">> >>, <<"TOKEN_DECREMENT", <<"-", "-">> >>,
    <<"TOKEN_LPAREN", <<"(">> >>, <<"TOKEN_RPAREN", <<")">> >>,
    <<"TOKEN_LBRACKET", <<"[">> >>, <<"TOKEN_RBRACKET", <<"]">> >>,
    <<"TOKEN_LBRACE", <<"{">> >>, <<"TOKEN_RBRACE", <<"}">> >>,
    <<"TOKEN_SEMICOLON", <<";">> >>, <<"TOKEN_COMMA", <<",">> >>,
    <<"TOKEN_DOT", <<".">> >>, <<"TOKEN_ARROW", <<"-", ">">> >>,
    <<"TOKEN_COLON", <<":">> >>, <<"TOKEN_QUESTION", <<"?">> >>,
    <<"TOKEN_ELLIPSSIS", <<".", ".", ".">> >> }

IsPrefix(spelling, source) ==
    /\ Len(spelling) <= Len(source)
    /\ \A i \in 1..Len(spelling) : source[i] = spelling[i]

\* the operators of the set that match at the start of the buffer
Matching(source) == {e \in OperatorSpellings : IsPrefix(e[2], source)}

\* C19: when lexerNextToken returns from a buffer that begins with an
\* operator or punctuator, the token has the type of the longest operator of
\* the set that matches there, and the position has moved over exactly the
\* characters of that operator.
C19_LongestOperatorMatch ==
    (/\ op = "next"
     /\ pc = "idle"
     /\ callState.position = 0
     /\ Matching(callState.source) # {})
    => \E e \in Matching(callState.source) :
           /\ \A f \in Matching(callState.source) : Len(f[2]) <= Len(e[2])
           /\ lastToken.type = e[1]
           /\ lexer.position = Len(e[2])

-----------------------------------------------------------------------------
(* Lexer: buffers of integer literals *)

MaxDigits == 3

NumPrefixes == {<<>>, <<"0">>, <<"0", "x">>, <<"0", "X">>, <<"0", "b">>, <<"0", "B">>}

NumDigits == {"0", "1", "7", "A"}

NumSources ==
    {p \o d : p \in NumPrefixes, d \in UNION {[1..n -> NumDigits] : n \in 1..MaxDigits}}

NumInit ==
    /\ lexer \in {createLexer(s) : s \in NumSources}
    /\ pc = "idle"
    /\ op = "none"
    /\ saved = NoSaved
    /\ callState = Called(lexer, <<>>)
    /\ tokens = <<>>
    /\ lastToken = NoToken
    /\ diags = <<>>
    /\ AstIdle
    /\ VisIdle
    /\ EngineIdle

NumSpec == NumInit /\ [][LexNext]_vars

\* the base a literal's prefix indicates
PrefixBase(source) ==
    IF Len(source) >= 2 /\ source[1] = "0" /\ source[2] \in {"x", "X"} THEN 16
    ELSE IF Len(source) >= 2 /\ source[1] = "0" /\ source[2] \in {"b", "B"} THEN 2
    ELSE IF Len(source) >= 2 /\ source[1] = "0" /\ source[2] \in Digits THEN 8
    ELSE 10

\* the digits of a literal: what follows its prefix
LiteralDigits(source) ==
    LET skip == CASE PrefixBase(source) \in {16, 2} -> 2
                  [] PrefixBase(source) = 8 -> 1
                  [] OTHER -> 0
    IN  SubSeq(source, skip + 1, Len(source))

\* the buffer is one integer literal: a prefix and at least one digit, all
\* of them digits of the base of the prefix
IsIntegerLiteral(source) ==
    /\ LiteralDigits(source) # <<>>
    /\ \A i \in 1..Len(LiteralDigits(source)) :
           /\ LiteralDigits(source)[i] \in XDigits
           /\ DigitValue(LiteralDigits(source)[i]) < PrefixBase(source)

RECURSIVE ValueIn(_, _)
ValueIn(digits, base) ==
    IF digits = <<>> THEN 0
    ELSE ValueIn(SubSeq(digits, 1, Len(digits) - 1), base) * base
             + DigitValue(digits[Len(digits)])

BaseLiteralType(base) ==
    CASE base = 16 -> "LITERAL_TYPE_HEXADECIMAL"
      [] base = 8 -> "LITERAL_TYPE_OCTAL"
      [] base = 2 -> "LITERAL_TYPE_BINARY"
      [] base = 10 -> "LITERAL_TYPE_DECIMAL"

\* C20: when lexerNextToken returns from a buffer that is one integer
\* literal, the token is an integer literal over the whole buffer whose base
\* is the one its prefix indicates (0x/0X 16, 0b/0B 2, 0 and a digit 8,
\* otherwise 10) and whose value is its digits read in that base.
C20_IntegerBaseAndValue ==
    (/\ op = "next"
     /\ pc = "idle"
     /\ callState.position = 0
     /\ IsIntegerLiteral(callState.source))
    => /\ lastToken.type = "TOKEN_INTEGER_LITERAL"
       /\ lastToken.literalType = BaseLiteralType(PrefixBase(callState.source))
       /\ lastToken.hasValue
       /\ lastToken.intValue
              = ValueIn(LiteralDigits(callState.source), PrefixBase(callState.source))
       /\ lexer.position = Len(callState.source)

\* lexerNextToken has returned from the buffer 0x1A: hexadecimal, value 26
C20_Witness ==
    /\ op = "next"
    /\ pc = "idle"
    /\ callState.position = 0
    /\ callState.source = <<"0", "x", "1", "A">>
    /\ IsIntegerLiteral(callState.source)
    /\ lastToken.literalType = "LITERAL_TYPE_HEXADECIMAL"
    /\ lastToken.intValue = 26

-----------------------------------------------------------------------------
(* Lexer: rendering tokens and lexing them again *)

\* the element of a set of one element
Only(S) == CHOOSE x \in S : TRUE

\* lexerNextToken: lexerSkipWhitespace and the loop while (lexerSkipComment);
\* the loop does not end once a turn leaves the lexer as it found it
RECURSIVE SkipWhitespaceAndComments(_)
SkipWhitespaceAndComments(l) ==
    LET Turn(from, r) ==
            IF ~r.ret THEN [l |-> r.l, returns |-> TRUE]
            ELSE IF r.l = from THEN [l |-> from, returns |-> FALSE]
            ELSE SkipWhitespaceAndComments(r.l)
    IN  Only({Only({Turn(from, r) : r \in {lexerSkipComment(lexerSkipWhitespace(from))}})
                 : from \in {l}})

lexerNextToken(l) ==
    LET Scan(s, t) ==
            IF s.returns THEN [l |-> t.l, tok |-> t.tok, returns |-> TRUE]
            ELSE [l |-> s.l, tok |-> NoToken, returns |-> FALSE]
    IN  Only({Only({Scan(s, t) : t \in {ScanToken(s.l)}})
                 : s \in {SkipWhitespaceAndComments(l)}})

\* the tokens lexerNextToken returns, call after call, before the EOF token
\* or the call that does not return
RECURSIVE TokensFrom(_)
TokensFrom(l) ==
    LET Rest(r) ==
            IF ~r.returns \/ r.tok.type = "TOKEN_EOF" THEN <<>>
            ELSE <<r.tok>> \o TokensFrom(r.l)
    IN  Only({Rest(r) : r \in {lexerNextToken(l)}})

\* the lexer after those calls
RECURSIVE LexerAfter(_)
LexerAfter(l) ==
    LET Rest(r) ==
            IF ~r.returns \/ r.tok.type = "TOKEN_EOF" THEN r.l ELSE LexerAfter(r.l)
    IN  Only({Rest(r) : r \in {lexerNextToken(l)}})

RoundTripAlphabet == {"(", "0", "1", "7", "a", " "}

RoundTripSources == UNION {[1..n -> RoundTripAlphabet] : n \in 0..MaxLen}

\* the character strings a lexeme of these buffers can be
LexemeSeqs == UNION {[1..n -> {"(", "{", "0", "1", "7", "a"}] : n \in 0..MaxLen}

LexemeChars(lexeme) == CHOOSE cs \in LexemeSeqs : Str(cs) = lexeme

\* the text of the tokens, one space between two of them
RECURSIVE Render(_)
Render(toks) ==
    IF toks = <<>> THEN <<>>
    ELSE IF Len(toks) = 1 THEN LexemeChars(toks[1].lexeme)
    ELSE LexemeChars(toks[1].lexeme) \o <<" ">> \o Render(Tail(toks))

RoundTripInit ==
    /\ lexer \in {createLexer(s) : s \in RoundTripSources}
    /\ pc = "idle"
    /\ op = "none"
    /\ saved = NoSaved
    /\ callState = Called(lexer, <<>>)
    /\ tokens = <<>>
    /\ lastToken = NoToken
    /\ diags = <<>>
    /\ AstIdle
    /\ VisIdle
    /\ EngineIdle

\* the buffer is lexed token by token
FirstPass ==
    /\ pc = "idle"
    /\ op = "none"
    /\ tokens' = TokensFrom(lexer)
    /\ lexer' = LexerAfter(lexer)
    /\ callState' = Called(lexer, diags)
    /\ op' = "lex"
    /\ pc' = "lexed"
    /\ UNCHANGED <<saved, lastToken, diags>>
    /\ UNCHANGED <<astVars, visVars, engVars>>

\* a lexer is created on the rendering of the tokens, and that is lexed
Relex ==
    /\ pc = "lexed"
    /\ \E relexer \in {createLexer(Render(tokens))} :
           /\ tokens' = TokensFrom(relexer)
           /\ lexer' = LexerAfter(relexer)
    /\ op' = "relex"
    /\ pc' = "relexed"
    /\ UNCHANGED <<saved, callState, lastToken, diags>>
    /\ UNCHANGED <<astVars, visVars, engVars>>

RoundTripNext == FirstPass \/ Relex

RoundTripSpec == RoundTripInit /\ [][RoundTripNext]_vars

ValidToken(tok) == tok.hasLexeme /\ tok.type \notin {"TOKEN_UNKNOWN", "TOKEN_EOF"}

SameKindAndValue(t, u) ==
    /\ t.type = u.type
    /\ t.intValue = u.intValue
    /\ t.floatValue = u.floatValue
    /\ t.charValue = u.charValue
    /\ t.stringValue = u.stringValue

\* C18: when the tokens of a buffer are all valid, lexing their texts
\* joined by single spaces yields as many tokens, each of the type and the
\* literal value of the token it was rendered from.
C18_RoundTrip ==
    (/\ pc = "relexed"
     /\ \A i \in 1..Len(TokensFrom(callState)) : ValidToken(TokensFrom(callState)[i]))
    => /\ Len(tokens) = Len(TokensFrom(callState))
       /\ \A i \in 1..Len(tokens) :
              SameKindAndValue(tokens[i], TokensFrom(callState)[i])

-----------------------------------------------------------------------------
(* Lexer: buffers of one string literal *)

MaxBody == 4

StrBodyAlphabet == {"a", "n", "0", "\\"}

StrBodies == UNION {[1..n -> StrBodyAlphabet] : n \in 0..MaxBody}

StrSources == {<<"\"">> \o b \o <<"\"">> : b \in StrBodies}

StrInit ==
    /\ lexer \in {createLexer(s) : s \in StrSources}
    /\ pc = "idle"
    /\ op = "none"
    /\ saved = NoSaved
    /\ callState = Called(lexer, <<>>)
    /\ tokens = <<>>
    /\ lastToken = NoToken
    /\ diags = <<>>
    /\ AstIdle
    /\ VisIdle
    /\ EngineIdle

StrSpec == StrInit /\ [][LexNext]_vars

\* the number of characters of the escape sequence that opens body (a
\* backslash, then one escape letter or one to three octal digits); 0 when
\* the backslash opens no escape sequence of these buffers
EscapeLength(body) ==
    IF Len(body) < 2 THEN 0
    ELSE IF body[2] \in {"n", "a", "\\"} THEN 2
    ELSE IF body[2] \in OctDigits
    THEN 1 + (CHOOSE k \in 1..3 :
                 /\ k + 1 <= Len(body)
                 /\ \A i \in 2..(k + 1) : body[i] \in OctDigits
                 /\ (k = 3 \/ k + 1 = Len(body) \/ body[k + 2] \notin OctDigits))
    ELSE 0

\* the character an escape sequence stands for
EscapeValue(esc) ==
    CASE esc[2] = "n" -> "\n"
      [] esc[2] = "a" -> BEL
      [] esc[2] = "\\" -> "\\"
      [] OTHER -> ByteToChar(ValueIn(Tail(esc), 8))

\* every backslash of body opens an escape sequence
RECURSIVE WellFormedBody(_)
WellFormedBody(body) ==
    IF body = <<>> THEN TRUE
    ELSE IF Head(body) # "\\" THEN WellFormedBody(Tail(body))
    ELSE /\ EscapeLength(body) > 0
         /\ WellFormedBody(SubSeq(body, EscapeLength(body) + 1, Len(body)))

\* the characters a well-formed body stands for
RECURSIVE Decoded(_)
Decoded(body) ==
    IF body = <<>> THEN <<>>
    ELSE IF Head(body) # "\\" THEN <<Head(body)>> \o Decoded(Tail(body))
    ELSE <<EscapeValue(SubSeq(body, 1, EscapeLength(body)))>>
             \o Decoded(SubSeq(body, EscapeLength(body) + 1, Len(body)))

BodyOf(source) == SubSeq(source, 2, Len(source) - 1)

\* C21: when lexerNextToken returns from a buffer that is one string
\* literal whose body is well formed, the token is a string literal whose
\* value is the decoded characters of the body and whose text is the buffer
\* as written, escape sequences undecoded.
C21_StringValueDecodedTextRaw ==
    (/\ op = "next"
     /\ pc = "idle"
     /\ callState.position = 0
     /\ WellFormedBody(BodyOf(callState.source)))
    => /\ lastToken.type = "TOKEN_STRING_LITERAL"
       /\ lastToken.stringValue = Decoded(BodyOf(callState.source))
       /\ lastToken.lexeme = Str(callState.source)

-----------------------------------------------------------------------------
(* Lexer: buffers of wide literals *)

WideAlphabet == {"L", "x", "'", "\""}

WideSources == UNION {[1..n -> WideAlphabet] : n \in 0..MaxLitLen}

WideInit ==
    /\ lexer \in {createLexer(s) : s \in WideSources}
    /\ pc = "idle"
    /\ op = "none"
    /\ saved = NoSaved
    /\ callState = Called(lexer, <<>>)
    /\ tokens = <<>>
    /\ lastToken = NoToken
    /\ diags = <<>>
    /\ AstIdle
    /\ VisIdle
    /\ EngineIdle

WideSpec == WideInit /\ [][LexNext]_vars

\* the buffer begins with L'x' (quote = ') or L"x" (quote = ")
BeginsWideLiteral(source, quote) ==
    /\ Len(source) >= 4
    /\ source[1] = "L"
    /\ source[2] = quote
    /\ source[3] = "x"
    /\ source[4] = quote

\* C22: when lexerNextToken returns from a buffer that begins with L'x' or
\* L"x", the token is one character literal (string literal) marked wide
\* that covers the L, the quotes and the character between them.
C22_WideLiteralOneToken ==
    \A quote \in {"'", "\""} :
        (/\ op = "next"
         /\ pc = "idle"
         /\ callState.position = 0
         /\ BeginsWideLiteral(callState.source, quote))
        => /\ lastToken.type = (IF quote = "'" THEN "TOKEN_CHAR_LITERAL"
                                               ELSE "TOKEN_STRING_LITERAL")
           /\ lastToken.isWide
           /\ lexer.position = 4

-----------------------------------------------------------------------------
(* Lexer: buffers of preprocessor directives *)

DirectiveAlphabet == {"#", "\n", " ", "i", "f"}

DirectiveSources == UNION {[1..n -> DirectiveAlphabet] : n \in 0..MaxLen}

DirectiveInit ==
    /\ lexer \in {createLexer(s) : s \in DirectiveSources}
    /\ pc = "idle"
    /\ op = "none"
    /\ saved = NoSaved
    /\ callState = Called(lexer, <<>>)
    /\ tokens = <<>>
    /\ lastToken = NoToken
    /\ diags = <<>>
    /\ AstIdle
    /\ VisIdle
    /\ EngineIdle

DirectiveSpec == DirectiveInit /\ [][LexNext]_vars

\* the least offset from `from` up to `to` whose character is not in S, or `to`
FirstNotIn(source, from, to, S) ==
    CHOOSE k \in from..to :
        /\ k = to \/ source[k + 1] \notin S
        /\ \A j \in from..(k - 1) : source[j + 1] \in S

\* the offset of the end of the first physical line: of its newline, or of
\* the end of the buffer
LineEnd(source) == FirstNotIn(source, 0, Len(source), DirectiveAlphabet \ {"\n"})

\* the directive name on the line of a leading #: the letters after the #
\* and the blanks that follow it
DirectiveName(source) ==
    LET from == FirstNotIn(source, 1, LineEnd(source), {" ", "\t"})
        to == FirstNotIn(source, from, LineEnd(source), Alpha)
    IN  Str(SubSeq(source, from + 1, to))

\* C23: when lexerNextToken returns from a buffer that begins with #, the
\* token's type is what the directive table gives for the directive name on
\* that line, its text is that line as written, and the position is the end
\* of that line: nothing after the line has been consumed.
C23_DirectiveWithinItsLine ==
    (/\ op = "next"
     /\ pc = "idle"
     /\ callState.position = 0
     /\ callState.source # <<>>
     /\ callState.source[1] = "#")
    => /\ lastToken.type = lexerIsPreprocessorDirective(DirectiveName(callState.source))
       /\ lastToken.lexeme = Str(SubSeq(callState.source, 1, LineEnd(callState.source)))
       /\ lexer.position = LineEnd(callState.source)

-----------------------------------------------------------------------------
(* Lexer: the text of tokens *)

\* C24: a token that lexerNextToken has returned and that is not the EOF
\* token has a text, and the text is not empty.
C24_TokenTextNonEmpty ==
    (/\ op = "next"
     /\ pc = "idle"
     /\ lastToken.type # "TOKEN_EOF")
    => /\ lastToken.hasLexeme
       /\ lastToken.lexeme # ""

-----------------------------------------------------------------------------
(* AST nodes: the heap, the factories and the destructors *)

MaxNodes == 4

\* a node: the struct that was allocated, its ASTNode header, the variant's
\* scalar child fields as <<field, address>> pairs and its child vectors as
\* <<field, addresses>> pairs; freed counts the calls of free() on the node
ASTNode(struct, nodeType, destroy, name, slots, vecs) ==
    [struct |-> struct, nodeType |-> nodeType, parent |-> NULL, destroy |-> destroy,
     name |-> name, slots |-> slots, vecs |-> vecs, freed |-> 0]

ExpressionTypes == {"AST_NODE_EXPRESSION", "AST_NODE_IDENTIFIER_EXPR",
                    "AST_NODE_BINARY_OPERATOR_EXPR", "AST_NODE_CAST_EXPR",
                    "AST_NODE_FUNCTION_CALL_EXPR"}

StatementTypes == {"AST_NODE_STATEMENT", "AST_NODE_EXPRESSION_STATEMENT",
                   "AST_NODE_COMPOUND_STATEMENT", "AST_NODE_IF_STATEMENT"}

DeclarationTypes == {"AST_NODE_DECLARATION", "AST_NODE_VARIABLE_DECLARATION",
                     "AST_NODE_FUNCTION_DECLARATION"}

TypeSpecifierTypes == {"AST_NODE_TYPE_SPECIFIER", "AST_NODE_BASIC_TYPE_SPECIFIER",
                       "AST_NODE_POINTER_TYPE_SPECIFIER"}

astNodeIsExpression(h, n) == n /= NULL /\ h[n].nodeType \in ExpressionTypes

astNodeIsStatement(h, n) == n /= NULL /\ h[n].nodeType \in StatementTypes

astNodeIsDeclaration(h, n) == n /= NULL /\ h[n].nodeType \in DeclarationTypes

astNodeIsTypeSpecifier(h, n) == n /= NULL /\ h[n].nodeType \in TypeSpecifierTypes

\* the value of a scalar child field, NULL when the variant has no such field
Field(node, f) ==
    IF \E i \in 1..Len(node.slots) : node.slots[i][1] = f
    THEN node.slots[CHOOSE i \in 1..Len(node.slots) : node.slots[i][1] = f][2]
    ELSE NULL

\* the elements of a child vector
Vec(node, f) ==
    IF \E i \in 1..Len(node.vecs) : node.vecs[i][1] = f
    THEN node.vecs[CHOOSE i \in 1..Len(node.vecs) : node.vecs[i][1] = f][2]
    ELSE <<>>

\* an insertion at the front of the child vector f of node n
vectorPushBack_Front(h, n, f, element) ==
    [h EXCEPT ![n].vecs =
        [i \in 1..Len(@) |-> IF @[i][1] = f THEN <<f, <<element>> \o @[i][2]>>
                             ELSE @[i]]]

\* vectorPushBack on the child vector f of node n
vectorPushBack(h, n, f, element) ==
    [h EXCEPT ![n].vecs =
        [i \in 1..Len(@) |-> IF @[i][1] = f THEN <<f, Append(@[i][2], element)>>
                             ELSE @[i]]]

\* child->base.parent = parent, done only for a non-NULL child
StampParent(h, child, parent) ==
    IF child = NULL THEN h ELSE [h EXCEPT ![child].parent = parent]

\* every factory returns the heap with the new node at address Len(heap)
createIdentifierExpr(h, name) ==
    Append(h, ASTNode("IdentifierExpr", "AST_NODE_IDENTIFIER_EXPR",
                      "destroyExpression", name, <<>>, <<>>))

createBinaryOperatorExpr(h, left, right) ==
    LET h1 == Append(h, ASTNode("BinaryOperatorExpr", "AST_NODE_BINARY_OPERATOR_EXPR",
                                "destroyExpression", <<>>,
                                << <<"left", left>>, <<"right", right>> >>, <<>>))
    IN  StampParent(StampParent(h1, left, Len(h1)), right, Len(h1))

createCastExpr(h, targetType, operand) ==
    LET h1 == Append(h, ASTNode("CastExpr", "AST_NODE_CAST_EXPR",
                                "destroyExpression", <<>>,
                                << <<"targetType", targetType>>,
                                   <<"operand", operand>> >>, <<>>))
    IN  StampParent(h1, operand, Len(h1))

createExpressionStatement(h, expression) ==
    LET h1 == Append(h, ASTNode("ExpressionStatement", "AST_NODE_EXPRESSION_STATEMENT",
                                "destroyStatement", <<>>,
                                << <<"expression", expression>> >>, <<>>))
    IN  StampParent(h1, expression, Len(h1))

createCompoundStatement(h) ==
    Append(h, ASTNode("CompoundStatement", "AST_NODE_COMPOUND_STATEMENT",
                      "destroyStatement", <<>>, <<>>,
                      << <<"declarations", <<>> >>, <<"statements", <<>> >> >>))

createVariableDeclaration(h, name, type, initializer) ==
    LET h1 == Append(h, ASTNode("VariableDeclaration", "AST_NODE_VARIABLE_DECLARATION",
                                "destroyDeclaration", name,
                                << <<"type", type>>,
                                   <<"initializer", initializer>> >>, <<>>))
    IN  StampParent(h1, initializer, Len(h1))

\* called with parameters = NULL
createFunctionDeclaration(h, name, returnType, body) ==
    LET h1 == Append(h, ASTNode("FunctionDeclaration", "AST_NODE_FUNCTION_DECLARATION",
                                "destroyDeclaration", name,
                                << <<"returnType", returnType>>, <<"body", body>> >>,
                                <<>>))
    IN  StampParent(h1, body, Len(h1))

createBasicTypeSpecifier(h) ==
    Append(h, ASTNode("BasicTypeSpecifier", "AST_NODE_BASIC_TYPE_SPECIFIER",
                      "destroyTypeSpecifier", <<>>, <<>>, <<>>))

createPointerTypeSpecifier(h, baseType) ==
    Append(h, ASTNode("PointerTypeSpecifier", "AST_NODE_POINTER_TYPE_SPECIFIER",
                      "destroyTypeSpecifier", <<>>,
                      << <<"baseType", baseType>> >>, <<>>))

\* the two definitions of createTranslationUnit install different destructors
BuildVariants == {"ast_nodes.c", "ast.c"}

createTranslationUnit(h, variant) ==
    Append(h, ASTNode("TranslationUnit", "AST_NODE_TRANSLATION_UNIT",
                      IF variant = "ast.c" THEN "destroyTranslationUnitNode"
                      ELSE "destroyTranslationUnit",
                      <<>>, <<>>, << <<"declarations", <<>> >> >>))

free(h, n) == [h EXCEPT ![n].freed = @ + 1]

\* the destructor variant that also destroys what the scalar fields point to
destroyExpression_FreesFields(h, n) ==
    LET RECURSIVE FreeAll(_, _)
        FreeAll(g, i) ==
            IF i > Len(h[n].slots) THEN g
            ELSE FreeAll(IF h[n].slots[i][2] = NULL THEN g
                         ELSE free(g, h[n].slots[i][2]), i + 1)
    IN  free(FreeAll(h, 1), n)
destroyExpression(h, n) == free(h, n)

destroyStatement(h, n) == free(h, n)

\* the destructor variant that also destroys the declaration's type
destroyDeclaration_FreesType(h, n) ==
    free(IF Field(h[n], "type") = NULL THEN h ELSE free(h, Field(h[n], "type")), n)
destroyDeclaration(h, n) == free(h, n)

destroyTypeSpecifier(h, n) == free(h, n)

RECURSIVE DESTROY_AST_NODE(_, _)

\* ast_nodes.c: each element is read through Declaration** and destroyed
RECURSIVE DestroyEach(_, _, _)
DestroyEach(h, elements, i) ==
    IF i > Len(elements) THEN h
    ELSE DestroyEach(IF elements[i] = NULL THEN h
                     ELSE DESTROY_AST_NODE(h, elements[i]), elements, i + 1)

destroyTranslationUnit(h, unit) ==
    free(DestroyEach(h, Vec(h[unit], "declarations"), 1), unit)

\* node->destroy(node)
DESTROY_AST_NODE(h, n) ==
    CASE h[n].destroy = "destroyExpression" -> destroyExpression(h, n)
      [] h[n].destroy = "destroyStatement" -> destroyStatement(h, n)
      [] h[n].destroy = "destroyDeclaration" -> destroyDeclaration(h, n)
      [] h[n].destroy = "destroyTypeSpecifier" -> destroyTypeSpecifier(h, n)
      [] h[n].destroy = "destroyTranslationUnit" -> destroyTranslationUnit(h, n)

\* ast.c: destroyTranslationUnitNode takes the address of each vector slot
\* for the node (no dereference) and calls through the destroy pointer it
\* reads there, and vectorDestroy does the same through destroyASTNode; with
\* a non-empty vector the calls go through bytes of the vector's storage.
\* The outcomes: the stray call faults, or every stray call returns and the
\* unit is freed.  No outcome reaches the declaration nodes.
destroyTranslationUnitNode(h, unit) ==
    IF Vec(h[unit], "declarations") = <<>>
    THEN {[heap |-> free(h, unit), crashed |-> FALSE]}
    ELSE {[heap |-> h, crashed |-> TRUE], [heap |-> free(h, unit), crashed |-> FALSE]}

-----------------------------------------------------------------------------
(* AST builder *)

\* a char* argument that is NULL
NullName == <<"NULL">>

Names == {<<"x">>, <<"1">>}

validateNodeName(name) ==
    /\ name /= NullName
    /\ name /= <<>>
    /\ name[1] \notin Digits
    /\ \A i \in 1..Len(name) : name[i] \in Lower \cup Upper \cup Digits \cup {"_"}

\* diagnosticEngineEmitDiagnostic(builder->diagnostics, DIAGNOSTIC_ERROR, ...)
BuilderError(message) ==
    [level |-> "ERROR", error |-> message, location |-> createSourceLocation(0, 0, 0)]

\* astBuilderAddVariableDecl: the heap, the returned declaration (NULL on
\* failure) and the diagnostics emitted
astBuilderAddVariableDecl(h, unit, name, type, initializer) ==
    IF name = NullName \/ type = NULL
    THEN [heap |-> h, ret |-> NULL, reports |-> <<>>]
    ELSE IF ~validateNodeName(name)
    THEN [heap |-> h, ret |-> NULL,
          reports |-> <<BuilderError("INVALID_VARIABLE_NAME")>>]
    ELSE LET h1 == createVariableDeclaration(h, name, type, initializer)
         IN  [heap |-> vectorPushBack(h1, unit, "declarations", Len(h1)),
              ret |-> Len(h1), reports |-> <<>>]

\* called with parameters = NULL and body = NULL
astBuilderAddFunctionDecl(h, unit, name, returnType) ==
    IF name = NullName \/ returnType = NULL
    THEN [heap |-> h, ret |-> NULL, reports |-> <<>>]
    ELSE IF ~validateNodeName(name)
    THEN [heap |-> h, ret |-> NULL,
          reports |-> <<BuilderError("INVALID_FUNCTION_NAME")>>]
    ELSE LET h1 == createFunctionDeclaration(h, name, returnType, NULL)
         IN  [heap |-> vectorPushBack(h1, unit, "declarations", Len(h1)),
              ret |-> Len(h1), reports |-> <<>>]

astBuilderCreateExprStmt(h, expression) ==
    IF expression = NULL
    THEN [heap |-> h, ret |-> NULL, reports |-> <<>>]
    ELSE LET h1 == createExpressionStatement(h, expression)
         IN  [heap |-> h1, ret |-> Len(h1), reports |-> <<>>]

astBuilderCreateIdentifierExpr(h, name) ==
    IF name = NullName
    THEN [heap |-> h, ret |-> NULL, reports |-> <<>>]
    ELSE LET h1 == createIdentifierExpr(h, name)
         IN  [heap |-> h1, ret |-> Len(h1), reports |-> <<>>]

astBuilderCreateBasicType(h) ==
    LET h1 == createBasicTypeSpecifier(h)
    IN  [heap |-> h1, ret |-> Len(h1), reports |-> <<>>]

\* astBuilderAddStmtToCompound, past its argument checks
astBuilderAddStmtToCompound(h, compound, stmt) ==
    StampParent(vectorPushBack(h, compound, "statements", stmt), stmt, compound)

-----------------------------------------------------------------------------
(* AST: operations *)

\* the nodes a node points to through its child fields
Children(node) ==
    ({node.slots[i][2] : i \in 1..Len(node.slots)}
        \cup UNION {{node.vecs[i][2][j] : j \in 1..Len(node.vecs[i][2])} :
                    i \in 1..Len(node.vecs)}) \ {NULL}

RECURSIVE Reach(_, _)
Reach(h, S) ==
    LET next == S \cup UNION {Children(h[n]) : n \in S}
    IN  IF next = S THEN S ELSE Reach(h, next)

\* nodes no other node points to: what a caller still holds and may hand over
Unowned(h) == {n \in 1..Len(h) : \A m \in 1..Len(h) : n \notin Children(h[m])}

\* the callers pass the children the astBuilderCreate* wrappers insist on
\* (an expression's operands, a type reference); NULL where it is optional
ExpressionArgs(h) == {n \in Unowned(h) : astNodeIsExpression(h, n)}

\* type specifiers may be referred to from several places
TypeArgs(h) == {n \in 1..Len(h) : astNodeIsTypeSpecifier(h, n)}

\* what the lexer holds while the AST is built
LexIdle ==
    /\ lexer = createLexer(<<>>)
    /\ pc = "idle"
    /\ op = "none"
    /\ saved = NoSaved
    /\ callState = Called(lexer, <<>>)
    /\ tokens = <<>>
    /\ lastToken = NoToken
    /\ diags = <<>>

AstInit ==
    /\ heap = <<>>
    /\ root = NULL
    /\ build = "none"
    /\ astPc = "building"
    /\ target = NULL
    /\ before = <<>>
    /\ lastCall = NoCall
    /\ added = <<>>
    /\ LexIdle
    /\ VisIdle
    /\ EngineIdle

\* what every factory call needs and leaves alone
CreateFrame ==
    /\ astPc = "building"
    /\ Len(heap) < MaxNodes
    /\ UNCHANGED <<root, build, astPc, target, before, lastCall, added>>
    /\ UNCHANGED <<lexVars, visVars, engVars>>

CreateIdentifierExpr ==
    /\ \E name \in {<<"a">>} : heap' = createIdentifierExpr(heap, name)
    /\ CreateFrame

CreateBinaryOperatorExpr ==
    /\ \E left \in ExpressionArgs(heap), right \in ExpressionArgs(heap) :
        /\ left /= right
        /\ heap' = createBinaryOperatorExpr(heap, left, right)
    /\ CreateFrame

CreateCastExpr ==
    /\ \E targetType \in TypeArgs(heap), operand \in ExpressionArgs(heap) :
        heap' = createCastExpr(heap, targetType, operand)
    /\ CreateFrame

CreateExpressionStatement ==
    /\ \E expression \in ExpressionArgs(heap) :
        heap' = createExpressionStatement(heap, expression)
    /\ CreateFrame

CreateCompoundStatement ==
    /\ heap' = createCompoundStatement(heap)
    /\ CreateFrame

CreateVariableDeclaration ==
    /\ \E name \in {<<"x">>}, type \in TypeArgs(heap),
          initializer \in ExpressionArgs(heap) \cup {NULL} :
        heap' = createVariableDeclaration(heap, name, type, initializer)
    /\ CreateFrame

CreateBasicTypeSpecifier ==
    /\ heap' = createBasicTypeSpecifier(heap)
    /\ CreateFrame

CreatePointerTypeSpecifier ==
    /\ \E baseType \in TypeArgs(heap) : heap' = createPointerTypeSpecifier(heap, baseType)
    /\ CreateFrame

CreateASTBuilder ==
    /\ astPc = "building"
    /\ root = NULL
    /\ Len(heap) < MaxNodes
    /\ \E variant \in BuildVariants :
        /\ build' = variant
        /\ heap' = createTranslationUnit(heap, variant)
    /\ root' = Len(heap')
    /\ UNCHANGED <<astPc, target, before, lastCall, added>>
    /\ UNCHANGED <<lexVars, visVars, engVars>>

AstBuilderAddVariableDecl ==
    /\ astPc = "building"
    /\ root /= NULL
    /\ \E name \in Names \cup {NullName}, type \in TypeArgs(heap) \cup {NULL},
          initializer \in ExpressionArgs(heap) \cup {NULL} :
        LET r == astBuilderAddVariableDecl(heap, root, name, type, initializer)
        IN  /\ r.ret /= NULL => Len(heap) < MaxNodes
            /\ Len(diags) + Len(r.reports) <= MaxDiags
            /\ heap' = r.heap
            /\ diags' = diags \o r.reports
    /\ UNCHANGED <<root, build, astPc, target, before, lastCall, added>>
    /\ UNCHANGED <<lexer, pc, op, saved, callState, tokens, lastToken, engVars>>
    /\ UNCHANGED visVars

AstBuilderAddStmtToCompound ==
    /\ astPc = "building"
    /\ \E compound \in 1..Len(heap), stmt \in Unowned(heap) :
        /\ heap[compound].nodeType = "AST_NODE_COMPOUND_STATEMENT"
        /\ astNodeIsStatement(heap, stmt)
        /\ compound \notin Reach(heap, {stmt})
        /\ heap' = astBuilderAddStmtToCompound(heap, compound, stmt)
    /\ UNCHANGED <<root, build, astPc, target, before, lastCall, added>>
    /\ UNCHANGED <<lexVars, visVars, engVars>>

\* DESTROY_AST_NODE on a node the caller holds
DestroyNode ==
    /\ astPc = "building"
    /\ \E n \in Unowned(heap) \ {root} :
        /\ target' = n
        /\ heap' = DESTROY_AST_NODE(heap, n)
    /\ before' = heap
    /\ astPc' = "destroyedNode"
    /\ UNCHANGED <<root, build, lastCall, added>>
    /\ UNCHANGED <<lexVars, visVars, engVars>>

\* destroyASTBuilder: destroyTranslationUnit(builder->root), then the
\* builder's own containers
DestroyASTBuilder ==
    /\ astPc = "building"
    /\ root /= NULL
    /\ \/ /\ build = "ast_nodes.c"
          /\ heap' = destroyTranslationUnit(heap, root)
          /\ astPc' = "destroyedBuilder"
       \/ /\ build = "ast.c"
          /\ \E outcome \in destroyTranslationUnitNode(heap, root) :
                /\ heap' = outcome.heap
                /\ astPc' = IF outcome.crashed THEN "crashed" ELSE "destroyedBuilder"
    /\ target' = root
    /\ before' = heap
    /\ UNCHANGED <<root, build, lastCall, added>>
    /\ UNCHANGED <<lexVars, visVars, engVars>>

AstNext ==
    \/ CreateIdentifierExpr
    \/ CreateBinaryOperatorExpr
    \/ CreateCastExpr
    \/ CreateExpressionStatement
    \/ CreateCompoundStatement
    \/ CreateVariableDeclaration
    \/ CreateBasicTypeSpecifier
    \/ CreatePointerTypeSpecifier
    \/ CreateASTBuilder
    \/ AstBuilderAddVariableDecl
    \/ AstBuilderAddStmtToCompound
    \/ DestroyNode
    \/ DestroyASTBuilder

AstSpec == AstInit /\ [][AstNext]_vars

-----------------------------------------------------------------------------
(* AST builder: calls with their arguments and outcomes *)

\* the state createASTBuilder leaves
BuilderInit ==
    /\ \E variant \in BuildVariants :
        /\ build = variant
        /\ heap = createTranslationUnit(<<>>, variant)
    /\ root = 1
    /\ astPc = "building"
    /\ target = NULL
    /\ before = <<>>
    /\ lastCall = NoCall
    /\ added = <<>>
    /\ LexIdle
    /\ VisIdle
    /\ EngineIdle

\* the call opName(args) had the outcome r; isAdd for the astBuilderAdd*Decl calls
Returned(opName, args, r, isAdd) ==
    /\ r.ret /= NULL => Len(heap) < MaxNodes
    /\ Len(diags) + Len(r.reports) <= MaxDiags
    /\ heap' = r.heap
    /\ diags' = diags \o r.reports
    /\ before' = heap
    /\ lastCall' = [op |-> opName, args |-> args, ret |-> r.ret,
                    reports |-> Len(r.reports)]
    /\ added' = IF isAdd /\ r.ret /= NULL THEN Append(added, r.ret) ELSE added
    /\ UNCHANGED <<root, build, astPc, target>>
    /\ UNCHANGED <<lexer, pc, op, saved, callState, tokens, lastToken, engVars>>
    /\ UNCHANGED visVars

BuilderAddVariableDecl ==
    /\ astPc = "building"
    /\ \E name \in Names \cup {NullName}, type \in TypeArgs(heap) \cup {NULL},
          initializer \in ExpressionArgs(heap) \cup {NULL} :
        Returned("astBuilderAddVariableDecl", <<name, type, initializer>>,
                 astBuilderAddVariableDecl(heap, root, name, type, initializer), TRUE)

BuilderAddFunctionDecl ==
    /\ astPc = "building"
    /\ \E name \in Names \cup {NullName}, returnType \in TypeArgs(heap) \cup {NULL} :
        Returned("astBuilderAddFunctionDecl", <<name, returnType>>,
                 astBuilderAddFunctionDecl(heap, root, name, returnType), TRUE)

BuilderCreateExprStmt ==
    /\ astPc = "building"
    /\ \E expression \in ExpressionArgs(heap) \cup {NULL} :
        Returned("astBuilderCreateExprStmt", <<expression>>,
                 astBuilderCreateExprStmt(heap, expression), FALSE)

BuilderCreateIdentifierExpr ==
    /\ astPc = "building"
    /\ \E name \in Names \cup {NullName} :
        Returned("astBuilderCreateIdentifierExpr", <<name>>,
                 astBuilderCreateIdentifierExpr(heap, name), FALSE)

BuilderCreateBasicType ==
    /\ astPc = "building"
    /\ Returned("astBuilderCreateBasicType", <<>>, astBuilderCreateBasicType(heap), FALSE)

BuilderNext ==
    \/ BuilderAddVariableDecl
    \/ BuilderAddFunctionDecl
    \/ BuilderCreateExprStmt
    \/ BuilderCreateIdentifierExpr
    \/ BuilderCreateBasicType

BuilderSpec == BuilderInit /\ [][BuilderNext]_vars

-----------------------------------------------------------------------------
(* AST builder: properties *)

\* an identifier as the builder's contract spells it: a letter or underscore,
\* then letters, digits and underscores
ValidIdentifier(name) ==
    /\ name /= NullName
    /\ Len(name) >= 1
    /\ name[1] \in Alpha \cup {"_"}
    /\ \A i \in 1..Len(name) : name[i] \in AlNum \cup {"_"}

\* the last call was given an absent required input or an invalid identifier
\* name (the initializer of a variable declaration is optional)
InvalidInput(c) ==
    \/ /\ c.op = "astBuilderAddVariableDecl"
       /\ (~ValidIdentifier(c.args[1]) \/ c.args[2] = NULL)
    \/ /\ c.op = "astBuilderAddFunctionDecl"
       /\ (~ValidIdentifier(c.args[1]) \/ c.args[2] = NULL)
    \/ /\ c.op = "astBuilderCreateExprStmt"
       /\ c.args[1] = NULL
    \/ /\ c.op = "astBuilderCreateIdentifierExpr"
       /\ ~ValidIdentifier(c.args[1])

\* C14: a builder call given an absent required input or an invalid
\* identifier name returns NULL and leaves the translation unit's
\* declarations as they were.
C14_InvalidInputReturnsAbsent ==
    InvalidInput(lastCall) =>
        /\ lastCall.ret = NULL
        /\ Vec(heap[root], "declarations") = Vec(before[root], "declarations")

\* C15: a builder call that fails validation (absent required input or
\* invalid identifier name) has made a report before it returns NULL.
C15_ValidationFailureReported ==
    (InvalidInput(lastCall) /\ lastCall.ret = NULL) => lastCall.reports >= 1

\* C16: the translation unit's declarations are the results of the
\* successful astBuilderAdd*Decl calls, each once, in the order of the calls.
C16_DeclarationsInCallOrder ==
    lastCall.op /= "none" => Vec(heap[root], "declarations") = added

\* two declarations of different kinds have been added, and the last call,
\* an astBuilderAdd*Decl call, failed
C16_Witness ==
    /\ Len(added) = 2
    /\ heap[added[1]].nodeType /= heap[added[2]].nodeType
    /\ lastCall.op \in {"astBuilderAddVariableDecl", "astBuilderAddFunctionDecl"}
    /\ lastCall.ret = NULL
    /\ Vec(heap[root], "declarations") = added

\* C17: while a tree is built, every declaration, statement and expression
\* below the builder's translation unit has a parent, and that parent is the
\* node that holds it.
C17_ParentPresentBelowRoot ==
    (astPc = "building" /\ root /= NULL) =>
        \A n \in Reach(heap, {root}) \ {root} :
            ~astNodeIsTypeSpecifier(heap, n) =>
                /\ heap[n].parent /= NULL
                /\ n \in Children(heap[heap[n].parent])

-----------------------------------------------------------------------------
(* AST: properties of destruction *)

\* the fields that refer to a type specifier
TypeReferenceFields == {"targetType", "type", "baseType"}

\* the children a node owns whatever is decided about type specifiers: all
\* its child vectors and every scalar field that is not a type reference
OwnedChildren(node) ==
    ({node.slots[i][2] : i \in {j \in 1..Len(node.slots) :
                                  node.slots[j][1] \notin TypeReferenceFields}}
        \cup UNION {{node.vecs[i][2][j] : j \in 1..Len(node.vecs[i][2])} :
                    i \in 1..Len(node.vecs)}) \ {NULL}

RECURSIVE OwnedReach(_, _)
OwnedReach(h, S) ==
    LET next == S \cup UNION {OwnedChildren(h[n]) : n \in S}
    IN  IF next = S THEN S ELSE OwnedReach(h, next)

\* the type specifiers reachable from node n
TypeNodes(h, n) == {t \in Reach(h, {n}) \ {n} : astNodeIsTypeSpecifier(h, t)}

\* C4: after DESTROY_AST_NODE on a node, every descendant the node owns
\* (reached through scalar child fields and child vectors) has been freed
\* exactly once.
C4_DestroyFreesOwnedDescendants ==
    astPc = "destroyedNode" =>
        \A d \in OwnedReach(before, {target}) \ {target} :
            heap[d].freed = before[d].freed + 1

\* C5: after DESTROY_AST_NODE on a cast expression, the type specifier its
\* targetType points to has not been freed: it is still alive.
C5_CastLeavesTargetType ==
    (astPc = "destroyedNode" /\ before[target].nodeType = "AST_NODE_CAST_EXPR") =>
        heap[Field(before[target], "targetType")].freed = 0

\* a cast expression with a target type has been destroyed
C5_Witness ==
    /\ astPc = "destroyedNode"
    /\ before[target].nodeType = "AST_NODE_CAST_EXPR"
    /\ Field(before[target], "targetType") /= NULL
    /\ heap[target].freed = 1

C7_BuilderDestroysTree ==
    astPc = "destroyedBuilder" =>
        \A n \in OwnedReach(before, {root}) : heap[n].freed = before[n].freed + 1

-----------------------------------------------------------------------------
(* Visitor dispatch and the traversal drivers *)

\* the switch of astNodeAccept: <<case label, callback slot it calls>>
AcceptSwitch == <<
    <<"AST_NODE_TRANSLATION_UNIT", "visitTranslationUnit">>,
    <<"AST_NODE_LITERAL_EXPR", "visitLiteralExpr">>,
    <<"AST_NODE_IDENTIFIER_EXPR", "visitIdentifierExpr">>,
    <<"AST_NODE_BINARY_OPERATOR_EXPR", "visitBinaryOperatorExpr">>,
    <<"AST_NODE_UNARY_OPERATOR_EXPR", "visitUnaryOperatorExpr">>,
    <<"AST_NODE_ASSIGNMENT_EXPR", "visitAssignmentExpr">>,
    <<"AST_NODE_TERNARY_EXPR", "visitTernaryExpr">>,
    <<"AST_NODE_FUNCTION_CALL_EXPR", "visitFunctionCallExpr">>,
    <<"AST_NODE_ARRAY_SUBSCRIPT_EXPR", "visitArraySubscriptExpr">>,
    <<"AST_NODE_MEMBER_ACCESS_EXPR", "visitMemberAccessExpr">>,
    <<"AST_NODE_CAST_EXPR", "visitCastExpr">>,
    <<"AST_NODE_EXPRESSION_STATEMENT", "visitExpressionStatement">>,
    <<"AST_NODE_COMPOUND_STATEMENT", "visitCompoundStatement">>,
    <<"AST_NODE_IF_STATEMENT", "visitIfStatement">>,
    <<"AST_NODE_WHILE_STATEMENT", "visitWhileStatement">>,
    <<"AST_NODE_DO_WHILE_STATEMENT", "visitDoWhileStatement">>,
    <<"AST_NODE_FOR_STATEMENT", "visitForStatement">>,
    <<"AST_NODE_RETURN_STATEMENT", "visitReturnStatement">>,
    <<"AST_NODE_BREAK_STATEMENT", "visitBreakStatement">>,
    <<"AST_NODE_CONTINUE_STATEMENT", "visitContinueStatement">>,
    <<"AST_NODE_SWITCH_STATEMENT", "visitSwitchStatement">>,
    <<"AST_NODE_CASE_STATEMENT", "visitCaseStatement">>,
    <<"AST_NODE_LABELED_STATEMENT", "visitLabeledStatement">>,
    <<"AST_NODE_GOTO_STATEMENT", "visitGotoStatement">>,
    <<"AST_NODE_VARIABLE_DECLARATION", "visitVariableDeclaration">>,
    <<"AST_NODE_FUNCTION_DECLARATION", "visitFunctionDeclaration">>,
    <<"AST_NODE_STRUCT_DECLARATION", "visitStructDeclaration">>,
    <<"AST_NODE_UNION_DECLARATION", "visitUnionDeclaration">>,
    <<"AST_NODE_ENUM_DECLARATION", "visitEnumDeclaration">>,
    <<"AST_NODE_TYPEDEF_DECLARATION", "visitTypedefDeclaration">>,
    <<"AST_NODE_BASIC_TYPE_SPECIFIER", "visitBasicTypeSpecifier">>,
    <<"AST_NODE_POINTER_TYPE_SPECIFIER", "visitPointerTypeSpecifier">>,
    <<"AST_NODE_ARRAY_TYPE_SPECIFIER", "visitArrayTypeSpecifier">>,
    <<"AST_NODE_FUNCTION_TYPE_SPECIFIER", "visitFunctionTypeSpecifier">>,
    <<"AST_NODE_STRUCT_TYPE_SPECIFIER", "visitStructTypeSpecifier">>,
    <<"AST_NODE_UNION_TYPE_SPECIFIER", "visitUnionTypeSpecifier">>,
    <<"AST_NODE_ENUM_TYPE_SPECIFIER", "visitEnumTypeSpecifier">>,
    <<"AST_NODE_TYPEDEF_NAME_SPECIFIER", "visitTypedefNameSpecifier">> >>

\* the callback slots of struct ASTVisitor: <<slot, struct its node
\* parameter points to>>
VisitorSlots == <<
    <<"visitTranslationUnit", "TranslationUnit">>,
    <<"visitLiteralExpr", "LiteralExpr">>,
    <<"visitIdentifierExpr", "IdentifierExpr">>,
    <<"visitBinaryOperatorExpr", "BinaryOperatorExpr">>,
    <<"visitUnaryOperatorExpr", "UnaryOperatorExpr">>,
    <<"visitAssignmentExpr", "AssignmentExpr">>,
    <<"visitTernaryExpr", "TernaryExpr">>,
    <<"visitFunctionCallExpr", "FunctionCallExpr">>,
    <<"visitArraySubscriptExpr", "ArraySubscriptExpr">>,
    <<"visitMemberAccessExpr", "MemberAccessExpr">>,
    <<"visitCastExpr", "CastExpr">>,
    <<"visitExpressionStatement", "ExpressionStatement">>,
    <<"visitCompoundStatement", "CompoundStatement">>,
    <<"visitIfStatement", "IfStatement">>,
    <<"visitWhileStatement", "WhileStatement">>,
    <<"visitDoWhileStatement", "DoWhileStatement">>,
    <<"visitForStatement", "ForStatement">>,
    <<"visitReturnStatement", "ReturnStatement">>,
    <<"visitBreakStatement", "BreakStatement">>,
    <<"visitContinueStatement", "ContinueStatement">>,
    <<"visitSwitchStatement", "SwitchStatement">>,
    <<"visitCaseStatement", "CaseStatement">>,
    <<"visitLabeledStatement", "LabeledStatement">>,
    <<"visitGotoStatement", "GotoStatement">>,
    <<"visitVariableDeclaration", "VariableDeclaration">>,
    <<"visitFunctionDeclaration", "FunctionDeclaration">>,
    <<"visitStructDeclaration", "StructDeclaration">>,
    <<"visitUnionDeclaration", "UnionDeclaration">>,
    <<"visitEnumDeclaration", "EnumDeclaration">>,
    <<"visitTypedefDeclaration", "TypedefDeclaration">>,
    <<"visitBasicTypeSpecifier", "BasicTypeSpecifier">>,
    <<"visitPointerTypeSpecifier", "PointerTypeSpecifier">>,
    <<"visitArrayTypeSpecifier", "ArrayTypeSpecifier">>,
    <<"visitFunctionTypeSpecifier", "FunctionTypeSpecifier">>,
    <<"visitStructTypeSpecifier", "StructTypeSpecifier">>,
    <<"visitUnionTypeSpecifier", "UnionTypeSpecifier">>,
    <<"visitEnumTypeSpecifier", "EnumTypeSpecifier">>,
    <<"visitTypedefNameSpecifier", "TypedefNameSpecifier">>,
    <<"visit", "ASTNode">> >>

\* a pointer to the node at address n
NodePtr(n) == [kind |-> "node", addr |-> n, field |-> "", index |-> 0]

\* vectorGet: the address of element index of node n's child vector (not
\* the element stored there)
vectorGet(n, field, index) ==
    [kind |-> "slot", addr |-> n, field |-> field, index |-> index]

\* node->nodeType read through p.  An element address cast to ASTNode* reads
\* the vector's storage behind the element: later elements or bytes malloc
\* left uninitialised.  garbage[i] is the value read behind element i.
NodeTypeAt(h, p, garbage) ==
    IF p.kind = "node" THEN h[p.addr].nodeType ELSE garbage[p.index]

\* a call made on the visitor (or astNodeAccept being entered), its node
\* argument and, for beforeVisit, what it returned
Event(call, arg, ret) == [call |-> call, arg |-> arg, ret |-> ret]

\* visitor->beforeVisit(visitor, node): the hook of the visitor v turns
\* down the nodes whose nodeType is in v.rejects
beforeVisit(v, nodeType) == nodeType \notin v.rejects

\* the callback slot the switch selects; default: the generic visit
SwitchCase(nodeType) ==
    IF \E i \in 1..Len(AcceptSwitch) : AcceptSwitch[i][1] = nodeType
    THEN AcceptSwitch[CHOOSE i \in 1..Len(AcceptSwitch) :
                        AcceptSwitch[i][1] = nodeType][2]
    ELSE "visit"

\* the variant that runs the after-hook ahead of the callback
astNodeAccept_AfterVisitFirst(h, p, v, garbage) ==
    LET nodeType == NodeTypeAt(h, p, garbage)
    IN  <<Event("astNodeAccept", p, TRUE)>>
        \o (IF v.hasBeforeVisit
            THEN <<Event("beforeVisit", p, beforeVisit(v, nodeType))>> ELSE <<>>)
        \o (IF v.hasBeforeVisit /\ ~beforeVisit(v, nodeType) THEN <<>>
            ELSE (IF v.hasAfterVisit THEN <<Event("afterVisit", p, TRUE)>> ELSE <<>>)
              \o (IF SwitchCase(nodeType) \in v.slots
                  THEN <<Event(SwitchCase(nodeType), p, TRUE)>> ELSE <<>>))
astNodeAccept(h, p, v, garbage) ==
    LET nodeType == NodeTypeAt(h, p, garbage)
    IN  <<Event("astNodeAccept", p, TRUE)>>
        \o (IF v.hasBeforeVisit
            THEN <<Event("beforeVisit", p, beforeVisit(v, nodeType))>> ELSE <<>>)
        \o (IF v.hasBeforeVisit /\ ~beforeVisit(v, nodeType) THEN <<>>
            ELSE (IF SwitchCase(nodeType) \in v.slots
                  THEN <<Event(SwitchCase(nodeType), p, TRUE)>> ELSE <<>>)
              \o (IF v.hasAfterVisit THEN <<Event("afterVisit", p, TRUE)>> ELSE <<>>))

createASTTraversalContext ==
    [depth |-> 0, maxDepth |-> 0, visitChildren |-> TRUE, stopTraversal |-> FALSE]

\* the pointers traverseDFSRecursive recurses with: the addresses vectorGet
\* returns, cast to ASTNode* without being dereferenced
DFSChildren(h, p, garbage) ==
    LET n == p.addr
        Slots(f) == [i \in 1..Len(Vec(h[n], f)) |-> vectorGet(n, f, i)]
    IN  IF p.kind /= "node" THEN <<>>
        ELSE IF h[n].nodeType = "AST_NODE_TRANSLATION_UNIT" THEN Slots("declarations")
        ELSE IF h[n].nodeType = "AST_NODE_COMPOUND_STATEMENT"
        THEN Slots("statements") \o Slots("declarations")
        ELSE <<>>

\* traverseDFSRecursive: the calls it makes, and whether it faulted.  When
\* the bytes behind a vector element read as a translation unit or a
\* compound statement, the vector pointer is read from those bytes too and
\* followed.
RECURSIVE traverseDFSRecursive(_, _, _, _, _, _)
traverseDFSRecursive(h, p, v, context, preorder, garbage) ==
    LET own == astNodeAccept(h, p, v, garbage)
        pre == IF preorder THEN own ELSE <<>>
        post == IF preorder THEN <<>> ELSE own
        children == DFSChildren(h, p, garbage)
        deeper == [context EXCEPT !.depth = @ + 1]
        RECURSIVE Each(_, _)
        Each(i, acc) ==
            IF i > Len(children) \/ acc.crashed THEN acc
            ELSE LET r == traverseDFSRecursive(h, children[i], v, deeper,
                                               preorder, garbage)
                 IN  Each(i + 1, [events |-> acc.events \o r.events,
                                  crashed |-> r.crashed])
    IN  IF context.maxDepth > 0 /\ context.depth >= context.maxDepth
        THEN [events |-> <<>>, crashed |-> FALSE]
        ELSE IF context.stopTraversal THEN [events |-> <<>>, crashed |-> FALSE]
        ELSE IF ~context.visitChildren
        THEN [events |-> own, crashed |-> FALSE]
        ELSE IF p.kind = "slot"
                /\ NodeTypeAt(h, p, garbage) \in {"AST_NODE_TRANSLATION_UNIT",
                                                  "AST_NODE_COMPOUND_STATEMENT"}
        THEN [events |-> pre, crashed |-> TRUE]
        ELSE LET sub == Each(1, [events |-> pre, crashed |-> FALSE])
             IN  IF sub.crashed THEN sub
                 ELSE [events |-> sub.events \o post, crashed |-> FALSE]

astTraverseDFS(h, n, v, preorder, garbage) ==
    traverseDFSRecursive(h, NodePtr(n), v, createASTTraversalContext, preorder, garbage)

-----------------------------------------------------------------------------
(* Visitor: operations *)

\* a + b * c
ExprTree ==
    LET h1 == createIdentifierExpr(<<>>, <<"a">>)
        h2 == createIdentifierExpr(h1, <<"b">>)
        h3 == createIdentifierExpr(h2, <<"c">>)
        h4 == createBinaryOperatorExpr(h3, 2, 3)
        h5 == createBinaryOperatorExpr(h4, 1, 4)
    IN  [heap |-> h5, root |-> 5, build |-> "none"]

\* int x; int y = a;  built through the builder
UnitTree ==
    LET h1 == createTranslationUnit(<<>>, "ast_nodes.c")
        h2 == createBasicTypeSpecifier(h1)
        h3 == astBuilderAddVariableDecl(h2, 1, <<"x">>, 2, NULL).heap
        h4 == createIdentifierExpr(h3, <<"a">>)
        h5 == astBuilderAddVariableDecl(h4, 1, <<"y">>, 2, 4).heap
    IN  [heap |-> h5, root |-> 1, build |-> "ast_nodes.c"]

\* { a; { } }
BlockTree ==
    LET h1 == createCompoundStatement(<<>>)
        h2 == createIdentifierExpr(h1, <<"a">>)
        h3 == createExpressionStatement(h2, 2)
        h4 == astBuilderAddStmtToCompound(h3, 1, 3)
        h5 == createCompoundStatement(h4)
        h6 == astBuilderAddStmtToCompound(h5, 1, 4)
    IN  [heap |-> h6, root |-> 1, build |-> "none"]

Trees == {ExprTree, UnitTree, BlockTree}

\* the callback slots a visitor may populate
SlotChoices == {"visitBinaryOperatorExpr", "visitIdentifierExpr",
                "visitTranslationUnit", "visitCompoundStatement", "visit"}

\* the node types a beforeVisit hook may turn down
RejectChoices == {{}, {"AST_NODE_BINARY_OPERATOR_EXPR"}, {"AST_NODE_TRANSLATION_UNIT"},
                  {"AST_NODE_COMPOUND_STATEMENT"}}

Visitors ==
    {v \in [slots : SUBSET SlotChoices, hasBeforeVisit : BOOLEAN,
            rejects : RejectChoices, hasAfterVisit : BOOLEAN] :
        ~v.hasBeforeVisit => v.rejects = {}}

\* what the bytes behind a vector element may read as: a value outside the
\* enumeration, a leaf's tag, a container's tag
GarbageTypes == {"GARBAGE", "AST_NODE_IDENTIFIER_EXPR", "AST_NODE_COMPOUND_STATEMENT"}

LongestVec(h) ==
    LET lens == {0} \cup UNION {{Len(h[n].vecs[i][2]) : i \in 1..Len(h[n].vecs)} :
                                n \in 1..Len(h)}
    IN  CHOOSE m \in lens : \A k \in lens : k <= m

VisInit ==
    /\ \E t \in Trees :
        /\ heap = t.heap
        /\ root = t.root
        /\ build = t.build
    /\ astPc = "building"
    /\ target = NULL
    /\ before = <<>>
    /\ lastCall = NoCall
    /\ added = <<>>
    /\ visitor \in Visitors
    /\ trace = <<>>
    /\ visPc = "ready"
    /\ LexIdle
    /\ EngineIdle

\* astNodeAccept(node, visitor), called directly on a node
CallAccept ==
    /\ visPc = "ready"
    /\ \E n \in 1..Len(heap) :
        /\ target' = n
        /\ trace' = astNodeAccept(heap, NodePtr(n), visitor, <<>>)
    /\ visPc' = "accepted"
    /\ UNCHANGED <<heap, root, build, astPc, before, lastCall, added, visitor>>
    /\ UNCHANGED <<lexVars, engVars>>

\* astTraverseDFS(root, visitor, preorder), called on a node
CallTraverseDFS ==
    /\ visPc = "ready"
    /\ \E n \in 1..Len(heap), preorder \in BOOLEAN,
          garbage \in [1..LongestVec(heap) -> GarbageTypes] :
        LET r == astTraverseDFS(heap, n, visitor, preorder, garbage)
        IN  /\ target' = n
            /\ trace' = r.events
            /\ visPc' = IF r.crashed THEN "crashedDFS"
                        ELSE IF preorder THEN "traversedPreorder"
                        ELSE "traversedPostorder"
    /\ UNCHANGED <<heap, root, build, astPc, before, lastCall, added, visitor>>
    /\ UNCHANGED <<lexVars, engVars>>

VisNext ==
    \/ CallAccept
    \/ CallTraverseDFS

VisSpec == VisInit /\ [][VisNext]_vars

-----------------------------------------------------------------------------
(* Visitor: properties *)

\* the positions of the trace where astNodeAccept is entered
AcceptStarts == {i \in 1..Len(trace) : trace[i].call = "astNodeAccept"}

\* the calls made by the astNodeAccept entered at position i
Segment(i) ==
    LET later == {j \in AcceptStarts : j > i}
        last == IF later = {} THEN Len(trace)
                ELSE (CHOOSE j \in later : \A k \in later : j <= k) - 1
    IN  SubSeq(trace, i + 1, last)

\* the slot of struct ASTVisitor whose parameter is the node's own struct
MatchingSlot(node) ==
    VisitorSlots[CHOOSE i \in 1..Len(VisitorSlots) : VisitorSlots[i][2] = node.struct][1]

\* the pointers through which the children of the node at p are reached
ChildPointers(h, p) ==
    IF p.kind /= "node" THEN {}
    ELSE {NodePtr(c) : c \in Children(h[p.addr])}
         \cup UNION {{vectorGet(p.addr, h[p.addr].vecs[i][1], j) :
                        j \in 1..Len(h[p.addr].vecs[i][2])} :
                     i \in 1..Len(h[p.addr].vecs)}

\* C8: when beforeVisit returns false for a node, nothing else is called
\* with that node (no variant callback, no afterVisit) and nothing is
\* called with any of its children, whether accept was called directly or
\* by the depth-first driver.  Stated for the direct call and the preorder
\* traversal, where the hook has answered before the children's turn.
C8_RejectedNodeSkippedEntirely ==
    visPc \in {"accepted", "traversedPreorder"} =>
    \A i \in 1..Len(trace) :
        (trace[i].call = "beforeVisit" /\ ~trace[i].ret) =>
            /\ \A j \in 1..Len(trace) :
                trace[j].arg = trace[i].arg =>
                    trace[j].call \in {"astNodeAccept", "beforeVisit"}
            /\ \A j \in 1..Len(trace) :
                trace[j].arg \notin ChildPointers(heap, trace[i].arg)

\* C9: in every astNodeAccept call on a node for which beforeVisit is absent
\* or returns true, the calls are, in this order and each once: beforeVisit
\* if present, the callback slot matching the node's variant if that slot
\* is populated (and no other callback), afterVisit if present.
C9_AcceptCallOrder ==
    \A i \in AcceptStarts :
        LET p == trace[i].arg
            seg == Segment(i)
            accepted == \/ ~visitor.hasBeforeVisit
                        \/ /\ Len(seg) >= 1
                           /\ seg[1].call = "beforeVisit"
                           /\ seg[1].ret
        IN  (p.kind = "node" /\ accepted) =>
                /\ \A k \in 1..Len(seg) : seg[k].arg = p
                /\ [k \in 1..Len(seg) |-> seg[k].call] =
                        (IF visitor.hasBeforeVisit THEN <<"beforeVisit">> ELSE <<>>)
                     \o (IF MatchingSlot(heap[p.addr]) \in visitor.slots
                         THEN <<MatchingSlot(heap[p.addr])>> ELSE <<>>)
                     \o (IF visitor.hasAfterVisit THEN <<"afterVisit">> ELSE <<>>)

\* astNodeAccept ran on a node with both hooks present and with the
\* matching slot and at least one other slot populated
C9_Witness ==
    /\ visPc = "accepted"
    /\ visitor.hasBeforeVisit
    /\ visitor.hasAfterVisit
    /\ MatchingSlot(heap[target]) \in visitor.slots
    /\ Cardinality(visitor.slots) >= 2
    /\ Len(trace) = 4

\* the visitor that populates only visitBinaryOperatorExpr
BinaryOnlyVisitor ==
    [slots |-> {"visitBinaryOperatorExpr"}, hasBeforeVisit |-> FALSE, rejects |-> {},
     hasAfterVisit |-> FALSE]

\* C10: when astTraverseDFS has returned, every node of the subtree of the
\* node it was called on has been handed to astNodeAccept exactly once; and
\* over a + b * c the visitor populating only visitBinaryOperatorExpr has
\* received exactly two calls, both of visitBinaryOperatorExpr.
C10_DFSPresentsEveryNodeOnce ==
    visPc \in {"traversedPreorder", "traversedPostorder"} =>
        /\ \A n \in OwnedReach(heap, {target}) :
            Cardinality({i \in AcceptStarts : trace[i].arg = NodePtr(n)}) = 1
        /\ (heap = ExprTree.heap /\ target = ExprTree.root
                /\ visitor = BinaryOnlyVisitor) =>
            LET callbacks == SelectSeq(trace, LAMBDA e : e.call /= "astNodeAccept")
            IN  /\ Len(callbacks) = 2
                /\ \A k \in 1..Len(callbacks) :
                    callbacks[k].call = "visitBinaryOperatorExpr"

-----------------------------------------------------------------------------
(* Diagnostic engine: reports, counters and suppression *)

MaxCalls == 4

DiagnosticLevels == {"DIAGNOSTIC_LEVEL_NOTE", "DIAGNOSTIC_LEVEL_WARNING",
                     "DIAGNOSTIC_LEVEL_ERROR", "DIAGNOSTIC_LEVEL_FATAL"}

ErrorLevels == {"DIAGNOSTIC_LEVEL_ERROR", "DIAGNOSTIC_LEVEL_FATAL"}

\* diagnosticEngineReport with one test for both suppression flags
diagnosticEngineReport_AnySuppress(e, level) ==
    IF (e.suppressWarnings \/ e.suppressErrors)
       /\ level \in ErrorLevels \cup {"DIAGNOSTIC_LEVEL_WARNING"}
    THEN e
    ELSE IF level \in ErrorLevels
    THEN [e EXCEPT !.errorCount = @ + 1,
                   !.fatalErrorOccurred = @ \/ level = "DIAGNOSTIC_LEVEL_FATAL"]
    ELSE IF level = "DIAGNOSTIC_LEVEL_WARNING"
    THEN [e EXCEPT !.warningCount = @ + 1]
    ELSE e

\* the engine after diagnosticEngineReport(engine, level, location, format, ...)
\* with a format; the message goes to the consumer
diagnosticEngineReport(e, level) ==
    IF level = "DIAGNOSTIC_LEVEL_WARNING" /\ e.suppressWarnings THEN e
    ELSE IF level \in ErrorLevels /\ e.suppressErrors THEN e
    ELSE IF level \in ErrorLevels
    THEN [e EXCEPT !.errorCount = @ + 1,
                   !.fatalErrorOccurred = @ \/ level = "DIAGNOSTIC_LEVEL_FATAL"]
    ELSE IF level = "DIAGNOSTIC_LEVEL_WARNING"
    THEN [e EXCEPT !.warningCount = @ + 1]
    ELSE e

diagnosticEngineGetErrorCount(e) == e.errorCount

diagnosticEngineGetWarningCount(e) == e.warningCount

diagnosticEngineHasErrors(e) == e.errorCount > 0

diagnosticEngineSetSuppressErrors(e, suppress) == [e EXCEPT !.suppressErrors = suppress]

diagnosticEngineSetSuppressWarnings(e, suppress) ==
    [e EXCEPT !.suppressWarnings = suppress]

EngineInit ==
    /\ EngineIdle
    /\ LexIdle
    /\ AstIdle
    /\ VisIdle

EngineReport ==
    /\ Len(history) < MaxCalls
    /\ \E level \in DiagnosticLevels :
           /\ engine' = diagnosticEngineReport(engine, level)
           /\ history' = Append(history, [call |-> "report", arg |-> level])
    /\ UNCHANGED <<lexVars, astVars, visVars>>

EngineSetSuppressErrors ==
    /\ Len(history) < MaxCalls
    /\ \E suppress \in BOOLEAN :
           /\ engine' = diagnosticEngineSetSuppressErrors(engine, suppress)
           /\ history' = Append(history, [call |-> "suppressErrors", arg |-> suppress])
    /\ UNCHANGED <<lexVars, astVars, visVars>>

EngineSetSuppressWarnings ==
    /\ Len(history) < MaxCalls
    /\ \E suppress \in BOOLEAN :
           /\ engine' = diagnosticEngineSetSuppressWarnings(engine, suppress)
           /\ history' = Append(history, [call |-> "suppressWarnings", arg |-> suppress])
    /\ UNCHANGED <<lexVars, astVars, visVars>>

EngineNext ==
    \/ EngineReport
    \/ EngineSetSuppressErrors
    \/ EngineSetSuppressWarnings

EngineSpec == EngineInit /\ [][EngineNext]_vars

\* what the last call of the toggle before call i set, FALSE if there is none
ToggleBefore(h, i, toggle) ==
    LET js == {j \in 1..(i - 1) : h[j].call = toggle}
    IN  IF js = {} THEN FALSE
        ELSE h[CHOOSE j \in js : \A k \in js : k <= j].arg

\* the number of reports of a level in levels made while the toggle was off
ReportsWhileOff(h, levels, toggle) ==
    Cardinality({i \in 1..Len(h) : /\ h[i].call = "report"
                                    /\ h[i].arg \in levels
                                    /\ ~ToggleBefore(h, i, toggle)})

\* C25: after any sequence of reports and suppression toggles, the error
\* count is the number of ERROR and FATAL reports made while error
\* suppression was off, the warning count is the number of WARNING reports
\* made while warning suppression was off, and diagnosticEngineHasErrors
\* holds exactly when the error count is positive.
C25_CountsFollowUnsuppressedReports ==
    /\ diagnosticEngineGetErrorCount(engine)
           = ReportsWhileOff(history, ErrorLevels, "suppressErrors")
    /\ diagnosticEngineGetWarningCount(engine)
           = ReportsWhileOff(history, {"DIAGNOSTIC_LEVEL_WARNING"}, "suppressWarnings")
    /\ diagnosticEngineHasErrors(engine)
           <=> ReportsWhileOff(history, ErrorLevels, "suppressErrors") > 0

\* an error counted, then errors suppressed, then a warning counted and a
\* fatal error not counted
C25_Witness ==
    /\ history = << [call |-> "report", arg |-> "DIAGNOSTIC_LEVEL_ERROR"],
                    [call |-> "suppressErrors", arg |-> TRUE],
                    [call |-> "report", arg |-> "DIAGNOSTIC_LEVEL_WARNING"],
                    [call |-> "report", arg |-> "DIAGNOSTIC_LEVEL_FATAL"] >>
    /\ diagnosticEngineGetErrorCount(engine) = 1
    /\ diagnosticEngineGetWarningCount(engine) = 1
    /\ diagnosticEngineHasErrors(engine)

-----------------------------------------------------------------------------
(* AST utilities and the breadth-first driver *)

astBuilderAddDeclToCompound(h, compound, decl) ==
    StampParent(vectorPushBack(h, compound, "declarations", decl), decl, compound)

\* { int x; }
DeclBlockTree ==
    LET h1 == createCompoundStatement(<<>>)
        h2 == createBasicTypeSpecifier(h1)
        h3 == createVariableDeclaration(h2, <<"x">>, 2, NULL)
        h4 == astBuilderAddDeclToCompound(h3, 1, 3)
    IN  [heap |-> h4, root |-> 1, build |-> "none"]

\* astNodeFindAllByType: the loop over its stack.  The children pushed are
\* the addresses vectorGet returns, cast to ASTNode*; the top is popped.
RECURSIVE FindAllLoop(_, _, _, _, _)
FindAllLoop(h, stack, results, type, garbage) ==
    IF stack = <<>> THEN [results |-> results, crashed |-> FALSE]
    ELSE LET current == stack[Len(stack)]
             popped == SubSeq(stack, 1, Len(stack) - 1)
             nodeType == NodeTypeAt(h, current, garbage)
             found == IF nodeType = type THEN Append(results, current) ELSE results
         IN  IF current.kind = "slot"
                /\ nodeType \in {"AST_NODE_TRANSLATION_UNIT",
                                 "AST_NODE_COMPOUND_STATEMENT"}
             THEN [results |-> found, crashed |-> TRUE]
             ELSE FindAllLoop(h, popped \o DFSChildren(h, current, garbage), found,
                              type, garbage)

astNodeFindAllByType(h, n, type, garbage) ==
    FindAllLoop(h, <<NodePtr(n)>>, <<>>, type, garbage)

\* the pointers astTraverseBFS queues after a node: a translation unit's
\* declarations, a compound statement's statements
BFSChildren(h, p) ==
    LET n == p.addr
        Slots(f) == [i \in 1..Len(Vec(h[n], f)) |-> vectorGet(n, f, i)]
    IN  IF p.kind /= "node" THEN <<>>
        ELSE IF h[n].nodeType = "AST_NODE_TRANSLATION_UNIT" THEN Slots("declarations")
        ELSE IF h[n].nodeType = "AST_NODE_COMPOUND_STATEMENT" THEN Slots("statements")
        ELSE <<>>

\* astTraverseBFS: the loop over its queue
RECURSIVE BFSLoop(_, _, _, _, _)
BFSLoop(h, queue, events, v, garbage) ==
    IF queue = <<>> THEN [events |-> events, crashed |-> FALSE]
    ELSE LET node == Head(queue)
             visited == events \o astNodeAccept(h, node, v, garbage)
         IN  IF node.kind = "slot"
                /\ NodeTypeAt(h, node, garbage) \in {"AST_NODE_TRANSLATION_UNIT",
                                                     "AST_NODE_COMPOUND_STATEMENT"}
             THEN [events |-> visited, crashed |-> TRUE]
             ELSE BFSLoop(h, Tail(queue) \o BFSChildren(h, node), visited, v, garbage)

astTraverseBFS(h, n, v, garbage) == BFSLoop(h, <<NodePtr(n)>>, <<>>, v, garbage)

FindTypes == {"AST_NODE_IDENTIFIER_EXPR", "AST_NODE_BINARY_OPERATOR_EXPR",
              "AST_NODE_COMPOUND_STATEMENT", "AST_NODE_VARIABLE_DECLARATION"}

WalkInit ==
    /\ \E t \in Trees \cup {DeclBlockTree} :
        /\ heap = t.heap
        /\ root = t.root
        /\ build = t.build
    /\ astPc = "building"
    /\ target = NULL
    /\ before = <<>>
    /\ lastCall = NoCall
    /\ added = <<>>
    /\ visitor \in Visitors
    /\ trace = <<>>
    /\ visPc = "ready"
    /\ LexIdle
    /\ EngineIdle

\* astNodeFindAllByType(root, type), called on a node
CallFindAllByType ==
    /\ visPc = "ready"
    /\ \E n \in 1..Len(heap), type \in FindTypes,
          garbage \in [1..LongestVec(heap) -> GarbageTypes] :
        LET r == astNodeFindAllByType(heap, n, type, garbage)
        IN  /\ target' = n
            /\ lastCall' = [op |-> "astNodeFindAllByType", args |-> <<n, type>>,
                            ret |-> r.results, reports |-> 0]
            /\ visPc' = IF r.crashed THEN "crashedFind" ELSE "found"
    /\ UNCHANGED <<heap, root, build, astPc, before, added, visitor, trace>>
    /\ UNCHANGED <<lexVars, engVars>>

\* astTraverseBFS(root, visitor), called on a node
CallTraverseBFS ==
    /\ visPc = "ready"
    /\ \E n \in 1..Len(heap), garbage \in [1..LongestVec(heap) -> GarbageTypes] :
        LET r == astTraverseBFS(heap, n, visitor, garbage)
        IN  /\ target' = n
            /\ trace' = r.events
            /\ visPc' = IF r.crashed THEN "crashedBFS" ELSE "traversedBFS"
    /\ UNCHANGED <<heap, root, build, astPc, before, lastCall, added, visitor>>
    /\ UNCHANGED <<lexVars, engVars>>

WalkNext ==
    \/ CallFindAllByType
    \/ CallTraverseBFS

WalkSpec == WalkInit /\ [][WalkNext]_vars

\* C26: when astNodeFindAllByType(root, type) has returned, its result
\* holds every node of root's subtree whose nodeType is type, each once,
\* and nothing else.
C26_FindAllByTypeExact ==
    visPc = "found" =>
        LET results == lastCall.ret
            expected == {n \in OwnedReach(heap, {target}) :
                            heap[n].nodeType = lastCall.args[2]}
        IN  /\ \A n \in expected :
                Cardinality({i \in 1..Len(results) : results[i] = NodePtr(n)}) = 1
            /\ \A i \in 1..Len(results) :
                /\ results[i].kind = "node"
                /\ results[i].addr \in expected

\* the pointers handed to astNodeAccept
Accepted(events) ==
    {events[i].arg : i \in {j \in 1..Len(events) : events[j].call = "astNodeAccept"}}

EachAcceptedOnce(events) ==
    Cardinality({j \in 1..Len(events) : events[j].call = "astNodeAccept"})
        = Cardinality(Accepted(events))

\* C29: when astTraverseBFS has returned, astTraverseDFS on the same node
\* with the same visitor (in either order, reading the same bytes behind
\* the vector elements) hands astNodeAccept the same set of pointers, and
\* each driver hands over each of them once.
C29_BFSAndDFSPresentSameNodes ==
    visPc = "traversedBFS" =>
        \A garbage \in [1..LongestVec(heap) -> GarbageTypes], preorder \in BOOLEAN :
            LET bfs == astTraverseBFS(heap, target, visitor, garbage)
                dfs == astTraverseDFS(heap, target, visitor, preorder, garbage)
            IN  (bfs.events = trace /\ ~bfs.crashed /\ ~dfs.crashed) =>
                    /\ Accepted(dfs.events) = Accepted(trace)
                    /\ EachAcceptedOnce(dfs.events)
                    /\ EachAcceptedOnce(trace)

-----------------------------------------------------------------------------
(* AST factories: the parent of the children handed over *)

\* arguments is the caller's vector of argument expressions
createFunctionCallExpr(h, callee, arguments) ==
    LET h1 == Append(h, ASTNode("FunctionCallExpr", "AST_NODE_FUNCTION_CALL_EXPR",
                                "destroyExpression", <<>>,
                                << <<"callee", callee>> >>,
                                << <<"arguments", arguments>> >>))
    IN  StampParent(h1, callee, Len(h1))

createIfStatement(h, condition, thenStmt, elseStmt) ==
    LET h1 == Append(h, ASTNode("IfStatement", "AST_NODE_IF_STATEMENT",
                                "destroyStatement", <<>>,
                                << <<"condition", condition>>,
                                   <<"thenStmt", thenStmt>>,
                                   <<"elseStmt", elseStmt>> >>, <<>>))
    IN  StampParent(StampParent(StampParent(h1, condition, Len(h1)),
                                thenStmt, Len(h1)), elseStmt, Len(h1))

\* the statements a caller still holds
StatementArgs(h) == {n \in Unowned(h) : astNodeIsStatement(h, n)}

\* the argument vectors a caller can fill from the expressions it holds
ArgumentVectors(h) ==
    {<<>>} \cup {<<a>> : a \in ExpressionArgs(h)}
           \cup {p \in ExpressionArgs(h) \X ExpressionArgs(h) : p[1] /= p[2]}

\* a factory has returned the heap h with the new node at its end
FactoryReturned(opName, args, h) ==
    /\ astPc = "building"
    /\ Len(heap) < MaxNodes
    /\ heap' = h
    /\ lastCall' = [op |-> opName, args |-> args, ret |-> Len(h), reports |-> 0]
    /\ UNCHANGED <<root, build, astPc, target, before, added>>
    /\ UNCHANGED <<lexVars, visVars, engVars>>

FactoryIdentifierExpr ==
    \E name \in Names :
        FactoryReturned("createIdentifierExpr", <<name>>, createIdentifierExpr(heap, name))

FactoryBinaryOperatorExpr ==
    \E left \in ExpressionArgs(heap), right \in ExpressionArgs(heap) :
        /\ left /= right
        /\ FactoryReturned("createBinaryOperatorExpr", <<left, right>>,
                           createBinaryOperatorExpr(heap, left, right))

FactoryFunctionCallExpr ==
    \E callee \in ExpressionArgs(heap), arguments \in ArgumentVectors(heap) :
        /\ \A i \in 1..Len(arguments) : arguments[i] /= callee
        /\ FactoryReturned("createFunctionCallExpr", <<callee, arguments>>,
                           createFunctionCallExpr(heap, callee, arguments))

FactoryExpressionStatement ==
    \E expression \in ExpressionArgs(heap) :
        FactoryReturned("createExpressionStatement", <<expression>>,
                        createExpressionStatement(heap, expression))

FactoryCompoundStatement ==
    FactoryReturned("createCompoundStatement", <<>>, createCompoundStatement(heap))

FactoryIfStatement ==
    \E condition \in ExpressionArgs(heap), thenStmt \in StatementArgs(heap),
       elseStmt \in StatementArgs(heap) \cup {NULL} :
        /\ thenStmt /= elseStmt
        /\ FactoryReturned("createIfStatement", <<condition, thenStmt, elseStmt>>,
                           createIfStatement(heap, condition, thenStmt, elseStmt))

FactoryNext ==
    \/ FactoryIdentifierExpr
    \/ FactoryBinaryOperatorExpr
    \/ FactoryFunctionCallExpr
    \/ FactoryExpressionStatement
    \/ FactoryCompoundStatement
    \/ FactoryIfStatement

FactorySpec == AstInit /\ [][FactoryNext]_vars

\* C27: when a factory has returned a new node, every child handed to it,
\* through a scalar field or as an element of a child vector, has the new
\* node as its parent.
C27_FactoryStampsEveryChild ==
    lastCall.op /= "none" =>
        \A child \in Children(heap[lastCall.ret]) :
            heap[child].parent = lastCall.ret

-----------------------------------------------------------------------------
(* Lexer: the position across lexerNextToken *)

\* C28: when lexerNextToken returns, the position is not lower than it was
\* when the call began and lies within 0..sourceLength, also for a number
\* with the prefix 0 at the start of the buffer that is followed by '.' and
\* scanned again as a float.
C28_PositionMonotoneInRange ==
    (op = "next" /\ pc \in {"idle", "done"}) =>
        /\ callState.position <= lexer.position
        /\ lexer.position \in 0..lexer.sourceLength

-----------------------------------------------------------------------------
(* Lexer: lexerPeekToken and the diagnostic engine *)

\* the engine after the lexer's reports d, each made with its level
RECURSIVE Reported(_, _)
Reported(e, d) ==
    IF d = <<>> THEN e
    ELSE Reported(diagnosticEngineReport(e, "DIAGNOSTIC_LEVEL_" \o Head(d).level),
                  Tail(d))

\* C30: when lexerPeekToken returns, the engine's error count and warning
\* count are what they were when it was called, so that a malformed
\* construct that is peeked and then consumed by lexerNextToken is counted
\* once.
C30_PeekLeavesCountsUnchanged ==
    (op = "peek" /\ pc \in {"idle", "done"}) =>
        LET atCall == Reported(createDiagnosticEngine,
                               SubSeq(diags, 1, callState.reported))
            atReturn == Reported(createDiagnosticEngine, diags)
        IN  /\ diagnosticEngineGetErrorCount(atReturn)
                   = diagnosticEngineGetErrorCount(atCall)
            /\ diagnosticEngineGetWarningCount(atReturn)
                   = diagnosticEngineGetWarningCount(atCall)

====
